-------------------------- MODULE FundedInboxProofs --------------------------
(* The fact inbox of a funded run for any number of orders, instants,       *)
(* invalidations and deaths of the process. Proved of Spec: its types, that  *)
(* a retry takes up the fact it left, that no admitted fact is refused for   *)
(* its time, that a run closes without orders or reservations, and that an   *)
(* invalidated signal never trades. They rest on one another: IInv below is  *)
(* their conjunction with the parts that make it inductive.                  *)
EXTENDS FundedInbox, WellFoundedInduction, TLAPS

\* What is known of a fact by its shape.
IsFact(f) ==
  /\ f.type \in {"CLOCK", "QUOTE", "SIGNAL", "CANCEL"}
  /\ f.at \in Instants
  /\ f.type \in {"SIGNAL", "CANCEL"} => f.order \in Orders
  /\ f.pre \in BOOLEAN
  /\ f.type # "CANCEL" => f.pre = FALSE

\* Every fact the adapter can build has the shape of one.
LEMMA FactFields ==
  ASSUME NEW f \in Facts
  PROVE  IsFact(f)
<1>1. ASSUME NEW at \in Instants, f = Clock(at) PROVE IsFact(f)
  BY <1>1 DEF Clock, IsFact
<1>2. ASSUME NEW at \in Instants, f = Quote(at) PROVE IsFact(f)
  BY <1>2 DEF Quote, IsFact
<1>3. ASSUME NEW o \in Orders, NEW at \in Instants, f = Signal(o, at) PROVE IsFact(f)
  BY <1>3 DEF Signal, IsFact
<1>4. ASSUME NEW o \in Orders, NEW at \in Instants, NEW pre \in BOOLEAN, NEW stale \in BOOLEAN,
             f = Cancel(o, at, pre, stale) PROVE IsFact(f)
  BY <1>4 DEF Cancel, IsFact
<1>5. QED BY <1>1, <1>2, <1>3, <1>4 DEF Facts

\* Facts are dated by instants, which are numbers.
LEMMA FactTime == ASSUME NEW f \in Facts PROVE f.at \in Int
<1>1. f.at \in Instants
  BY FactFields DEF IsFact
<1>2. QED BY <1>1, TimeAssumption DEF Instants

\* The order of the inbox respects the dates of its facts.
LEMMA EarlierFacts ==
  ASSUME NEW f \in Facts, NEW g \in Facts, Before(f, g)
  PROVE  f.at <= g.at
<1>1. f.at \in Int /\ g.at \in Int
  BY FactTime
<1> QED BY <1>1 DEF Before

\* Answering or storing a fact keeps the outcomes outcomes.
LEMMA WithIsTyped ==
  ASSUME NEW f \in Facts, NEW v \in Outcomes, Inbox \subseteq Facts, outcome \in [Inbox -> Outcomes]
  PROVE  With(outcome, f, v) \in [Inbox \cup {f} -> Outcomes]
BY DEF With, Inbox

\* The inbox after the admission of a fact.
Admitted(f) ==
  /\ Inbox \subseteq Inbox' /\ Inbox' \subseteq Inbox \cup {f}
  /\ outcome' \in [Inbox' -> Outcomes]
  /\ Pending' \subseteq Pending \cup {f}
  /\ Processed \subseteq Processed' /\ \A g \in Processed : outcome'[g] = outcome[g]
  /\ f \in Pending' \ Pending => ~Late(f)
  /\ f \in Inbox' \ Inbox /\ f.type = "CANCEL" /\ f.pre /\ order'[f.order].status = "NONE"
       => SignalsOf(f.order)' \cap Pending' = {}

\* insertFact stores one more fact; it is left to the drain only if it is not late.
LEMMA StoredAdds ==
  ASSUME NEW f \in Facts, f \notin Inbox,
         Inbox \subseteq Facts, outcome \in [Inbox -> Outcomes]
  PROVE  /\ Stored(f) \in [Inbox \cup {f} -> Outcomes]
         /\ \A g \in Inbox : Stored(f)[g] = outcome[g]
         /\ Stored(f)[f] = "NULL" => ~Late(f)
<1> DEFINE v == IF Late(f) THEN "LATE_FACT" ELSE "NULL"
<1>1. v \in Outcomes /\ (v = "NULL" => ~Late(f))
  BY DEF Outcomes
<1>2. Stored(f) = With(outcome, f, v)
  BY DEF Stored
<1> HIDE DEF v
<1>3. With(outcome, f, v) \in [Inbox \cup {f} -> Outcomes]
  BY <1>1, WithIsTyped
<1>4. With(outcome, f, v)[f] = v /\ \A g \in Inbox : With(outcome, f, v)[g] = outcome[g]
  BY DEF With, Inbox
<1>5. QED BY <1>1, <1>2, <1>3, <1>4

\* Storing a fact is an admission.
LEMMA StoringAdmits ==
  ASSUME NEW f \in Facts, f \notin Inbox,
         Inbox \subseteq Facts, outcome \in [Inbox -> Outcomes],
         outcome' = Stored(f),
         f.type = "CANCEL" /\ f.pre => order'[f.order].status # "NONE"
  PROVE  Admitted(f)
<1>1. Inbox' = Inbox \cup {f}
  BY StoredAdds DEF Inbox
<1>2. outcome' \in [Inbox' -> Outcomes]
  BY <1>1, StoredAdds
<1>3. Pending' \subseteq Pending \cup {f}
  BY <1>1, StoredAdds DEF Pending
<1>4. Processed \subseteq Processed' /\ \A g \in Processed : outcome'[g] = outcome[g]
  BY <1>1, StoredAdds DEF Processed, Pending
<1>5. f \in Pending' => ~Late(f)
  BY StoredAdds DEF Pending
<1>6. QED BY <1>1, <1>2, <1>3, <1>4, <1>5 DEF Admitted

\* So is the suppression of an unsubmitted signal, which answers the signal
\* if it waits in the inbox.
LEMMA SuppressionAdmits ==
  ASSUME NEW f \in Facts, f \notin Inbox, f.type = "CANCEL",
         Inbox \subseteq Facts, outcome \in [Inbox -> Outcomes],
         Suppress(f)
  PROVE  Admitted(f)
<1> DEFINE s == Stored(f)
<1>1. /\ s \in [Inbox \cup {f} -> Outcomes]
      /\ \A g \in Inbox : s[g] = outcome[g]
      /\ s[f] = "NULL" => ~Late(f)
  BY StoredAdds
<1>2. outcome' = [g \in DOMAIN s |->
         IF g \in Pending /\ g \in SignalsOf(f.order) THEN "PRE_SUBMISSION_SUPPRESSED" ELSE s[g]]
  BY DEF Suppress
<1> HIDE DEF s
<1>3. Inbox' = Inbox \cup {f}
  BY <1>1, <1>2 DEF Inbox
<1>4. /\ \A g \in Inbox : outcome'[g] =
           IF outcome[g] = "NULL" /\ g \in SignalsOf(f.order)
           THEN "PRE_SUBMISSION_SUPPRESSED" ELSE outcome[g]
      /\ outcome'[f] = s[f]
  <2>1. f \notin Pending
    BY DEF Pending
  <2>2. QED BY <1>1, <1>2, <2>1 DEF Pending
<1>5. outcome' \in [Inbox' -> Outcomes]
  BY <1>1, <1>2, <1>3 DEF Outcomes
<1>6. Pending' \subseteq Pending \cup {f}
  BY <1>3, <1>4 DEF Pending
<1>7. Processed \subseteq Processed' /\ \A g \in Processed : outcome'[g] = outcome[g]
  BY <1>3, <1>4 DEF Processed, Pending
<1>8. f \in Pending' => ~Late(f)
  BY <1>1, <1>4 DEF Pending
<1>9. SignalsOf(f.order)' \cap Pending' = {}
  <2>1. SUFFICES ASSUME NEW g \in SignalsOf(f.order)', outcome'[g] = "NULL"
                 PROVE  FALSE
    BY DEF Pending
  <2>2. g \in Inbox /\ g \in SignalsOf(f.order)
    BY <2>1, <1>3 DEF SignalsOf
  <2>3. QED BY <1>4, <2>1, <2>2
<1>10. QED BY <1>3, <1>5, <1>6, <1>7, <1>8, <1>9 DEF Admitted

\* And the reconciliation with a submitted order, answered at once.
LEMMA ReconcilingAdmits ==
  ASSUME NEW f \in Facts, f \notin Inbox, TypeOK, Reconcile(f)
  PROVE  Admitted(f)
<1>1. outcome' = With(outcome, f, "APPLIED")
  BY DEF Reconcile
<1>2. With(outcome, f, "APPLIED") \in [Inbox \cup {f} -> Outcomes]
  BY WithIsTyped DEF TypeOK, Outcomes
<1>3. Inbox' = Inbox \cup {f}
  BY <1>1 DEF With, Inbox
<1>4. outcome' \in [Inbox' -> Outcomes]
  BY <1>1, <1>2, <1>3
<1>5. outcome'[f] = "APPLIED" /\ \A g \in Inbox : outcome'[g] = outcome[g]
  BY <1>1 DEF With, Inbox
<1>6. /\ Pending' \subseteq Pending /\ Processed \subseteq Processed'
      /\ \A g \in Processed : outcome'[g] = outcome[g]
  BY <1>3, <1>5 DEF Pending, Processed
<1>7. f.type = "CANCEL" /\ f.pre => order'[f.order].status # "NONE"
  <2>1. ASSUME f.type = "CANCEL" PROVE f.order \in Orders
    BY <2>1, FactFields DEF IsFact
  <2>2. QED BY <2>1 DEF Reconcile, TypeOK
<1>8. QED BY <1>3, <1>4, <1>6, <1>7 DEF Admitted

\* Whatever insertFact does with a fact, it admits it.
LEMMA AdmissionAdmits ==
  ASSUME NEW f \in Facts, TypeOK, Admit(f)
  PROVE  Admitted(f)
<1> USE DEF Admit
<1>1. Inbox \subseteq Facts /\ outcome \in [Inbox -> Outcomes]
  BY DEF TypeOK
<1>2. CASE AlreadyKnown(f)
  <2>1. outcome' = outcome
    BY <1>2
  <2>2. QED BY <1>1, <2>1 DEF Admitted, Inbox, Pending, Processed
<1>3. CASE ~AlreadyKnown(f)
  <2>1. f \notin Inbox
    BY <1>3 DEF AlreadyKnown
  <2>2. CASE Insert(f)
    BY <1>1, <2>1, <2>2, StoringAdmits DEF Insert
  <2>3. CASE Suppress(f)
    <3>1. f.type = "CANCEL"
      BY <2>3, FactFields DEF IsFact, Suppress
    <3>2. QED BY <1>1, <2>1, <2>3, <3>1, SuppressionAdmits
  <2>4. CASE Reconcile(f)
    BY <2>1, <2>4, ReconcilingAdmits
  <2>5. CASE InsertSettled(f)
    BY <1>1, <2>1, <2>5, StoringAdmits DEF InsertSettled, ledger
  <2>6. QED BY <1>3, <2>2, <2>3, <2>4, <2>5
<1>4. QED BY <1>2, <1>3

\* A set of instants has an earliest one.
LEMMA SmallestNat ==
  ASSUME NEW T, T \subseteq Nat, T # {}
  PROVE  \E x \in T : \A y \in T : x <= y
<1> DEFINE R == OpToRel(<, Nat)
<1>1. IsWellFoundedOn(R, Nat)
  BY NatLessThanWellFounded
<1>2. \A x, y \in Nat : y < x => <<y, x>> \in R
  BY DEF OpToRel
<1>3. PICK x \in T : \A y \in T : <<y, x>> \notin R
  <2> HIDE DEF R
  <2> QED BY <1>1, WFMin
<1>4. \A y \in T : ~ (y < x)
  <2> HIDE DEF R
  <2> QED BY <1>2, <1>3
<1> QED BY <1>4

\* The events of a setup are dated by bars that were seen.
KnownByNow == \A e \in invalidated : e[2] <= now

\* An unexpired signal without an invalidation is submitted before the close.
LEMMA SubmittedInTime ==
  ASSUME TypeOK, KnownByNow, NEW o \in Orders,
         ~Expired(o), SignalsOf(o) = {}, priorInvalidation(o) = {}
  PROVE  now < Close
<1> DEFINE S == findFundedInvalidations(o)
<1>1. S \subseteq Nat /\ \A at \in S : at <= now
  BY TimeAssumption DEF findFundedInvalidations, TypeOK, Instants, KnownByNow
<1>2. SubmittedAt(o) = now
  BY DEF SubmittedAt
<1>3. priorInvalidation(o) = {at \in S : \A other \in S : at <= other}
  BY <1>1, <1>2 DEF priorInvalidation
<1> HIDE DEF S
<1>4. S = {}
  BY <1>1, <1>3, SmallestNat
<1>5. ~(now >= fundedSignalValidityDeadline(o))
  BY <1>4 DEF Expired, S
<1>6. now \in Int /\ observed[o] \in Int
  BY TimeAssumption DEF TypeOK, Instants
<1>7. QED BY <1>5, <1>6, TimeAssumption DEF fundedSignalValidityDeadline, Sooner

\* The deadline of an expired signal is an instant of the run.
LEMMA ExpiredDeadline ==
  ASSUME TypeOK, NEW o \in Orders, Expired(o)
  PROVE  fundedSignalValidityDeadline(o) \in Instants
<1>1. now \in 1..MaxTime /\ observed[o] \in 0..MaxTime
  BY DEF TypeOK, Instants
<1>2. now >= fundedSignalValidityDeadline(o)
  BY DEF Expired
<1>3. QED BY <1>1, <1>2, TimeAssumption DEF fundedSignalValidityDeadline, Sooner, Instants

\* The inbox holds the refusal of a submission of the order.
PreCancelled(o) == \E g \in Inbox : g.type = "CANCEL" /\ g.order = o /\ g.pre

\* What the constructors build are facts.
LEMMA FactsBuilt ==
  ASSUME NEW o \in Orders, NEW at \in Instants
  PROVE  /\ Clock(at) \in Facts /\ Quote(at) \in Facts /\ Signal(o, at) \in Facts
         /\ \A pre, stale \in BOOLEAN : Cancel(o, at, pre, stale) \in Facts
BY DEF Facts

\* The envelopes of an observation: cancellations, or its signal.
LEMMA ObservationBuilds ==
  ASSUME TypeOK, KnownByNow, NEW o \in Orders
  PROVE  \/ \A f \in ObservationEnvelopes(o) :
              f \in Facts /\ f.type = "CANCEL" /\ f.order = o
         \/ /\ \A f \in ObservationEnvelopes(o) : f = Signal(o, now)
            /\ ObservationEnvelopes(o) # {} => now < Close /\ ~PreCancelled(o)
<1> DEFINE deadline == fundedSignalValidityDeadline(o)
           E == ObservationEnvelopes(o)
<1>1. CASE Suppressed(o)
  BY <1>1 DEF ObservationEnvelopes
<1>2. CASE ~Suppressed(o) /\ Expired(o) /\ SignalsOf(o) = {}
  <2>1. E = {Cancel(o, deadline, TRUE, TRUE)}
    BY <1>2 DEF ObservationEnvelopes
  <2>2. Cancel(o, deadline, TRUE, TRUE) \in Facts
    BY <1>2, ExpiredDeadline, FactsBuilt
  <2>3. QED BY <2>1, <2>2 DEF Cancel
<1>3. CASE ~Suppressed(o) /\ Expired(o) /\ SignalsOf(o) # {}
  <2>1. \A f \in E : f = Cancel(o, deadline, FALSE, TRUE)
    BY <1>3 DEF ObservationEnvelopes
  <2>2. Cancel(o, deadline, FALSE, TRUE) \in Facts
    BY <1>3, ExpiredDeadline, FactsBuilt
  <2>3. \A at : Cancel(o, at, FALSE, TRUE).type = "CANCEL" /\ Cancel(o, at, FALSE, TRUE).order = o
    BY DEF Cancel
  <2> HIDE DEF deadline, E
  <2>4. \A f \in E : f \in Facts /\ f.type = "CANCEL" /\ f.order = o
    BY <2>1, <2>2, <2>3
  <2>5. QED BY <2>4 DEF E
<1>4. CASE ~Suppressed(o) /\ ~Expired(o) /\ priorInvalidation(o) # {}
  <2>1. \A f \in E : \E at \in priorInvalidation(o) : f = Cancel(o, at, TRUE, FALSE)
    BY <1>4 DEF ObservationEnvelopes
  <2>2. priorInvalidation(o) \subseteq Instants
    BY DEF priorInvalidation, findFundedInvalidations, TypeOK
  <2>3. \A at \in priorInvalidation(o) : Cancel(o, at, TRUE, FALSE) \in Facts
    BY <2>2, FactsBuilt
  <2>4. QED BY <2>1, <2>3 DEF Cancel
<1>5. CASE ~Suppressed(o) /\ ~Expired(o) /\ priorInvalidation(o) = {}
  <2>1. E # {} => SignalsOf(o) = {}
    BY <1>5 DEF ObservationEnvelopes
  <2>2. \A f \in E : f = Signal(o, now)
    BY <1>5 DEF ObservationEnvelopes
  <2>3. E # {} => now < Close
    BY <1>5, <2>1, SubmittedInTime
  <2>4. E # {} => ~PreCancelled(o)
    BY <1>5, <2>1 DEF Suppressed, CancelsOf, PreCancelled
  <2>5. QED BY <2>2, <2>3, <2>4
<1>6. QED BY <1>1, <1>2, <1>3, <1>4, <1>5

\* Every envelope of a cycle is a fact; only those of an observation can be
\* signals or refusals.
LEMMA EnvelopeKinds ==
  ASSUME TypeOK, KnownByNow, NEW quotes, quotes \subseteq Instants, NEW f \in Envelopes(quotes)
  PROVE  /\ f \in Facts
         /\ \/ f.type \in {"CLOCK", "QUOTE"}
            \/ f.type = "CANCEL" /\ ~f.pre
            \/ \E o \in Orders : f \in ObservationEnvelopes(o)
<1>1. now \in Instants
  BY TimeAssumption DEF TypeOK, Instants
<1>2. ASSUME f = Clock(now) PROVE f \in Facts /\ f.type = "CLOCK"
  <2>1. f.type = "CLOCK"
    BY <1>2 DEF Clock
  <2>2. QED BY <1>1, <1>2, <2>1 DEF Facts
<1>3. ASSUME NEW at \in quotes, f = Quote(at) PROVE f \in Facts /\ f.type = "QUOTE"
  <2>1. f.type = "QUOTE" /\ at \in Instants
    BY <1>3 DEF Quote
  <2>2. QED BY <1>3, <2>1 DEF Facts
<1>4. ASSUME NEW o \in Orders, f \in ObservationEnvelopes(o) PROVE f \in Facts
  <2>1. Signal(o, now) \in Facts
    BY <1>1, FactsBuilt
  <2>2. QED BY <1>4, <2>1, ObservationBuilds
<1>5. ASSUME NEW o \in Orders, f \in InvalidationEnvelopes(o)
      PROVE  f \in Facts /\ f.type = "CANCEL" /\ ~f.pre
  <2>1. PICK at \in findFundedInvalidations(o) : f = Cancel(o, at, FALSE, FALSE)
    BY <1>5 DEF InvalidationEnvelopes
  <2>2. at \in Instants
    BY DEF findFundedInvalidations, TypeOK
  <2>3. f \in Facts
    BY <2>1, <2>2, FactsBuilt
  <2>4. f.type = "CANCEL" /\ f.pre = FALSE
    BY <2>1 DEF Cancel
  <2>5. QED BY <2>3, <2>4
<1>6. \/ f = Clock(now)
      \/ \E at \in quotes : f = Quote(at)
      \/ \E o \in Orders : f \in ObservationEnvelopes(o) \/ f \in InvalidationEnvelopes(o)
  BY DEF Envelopes
<1>7. QED BY <1>2, <1>3, <1>4, <1>5, <1>6

\* The signal of an observation is dated now, before the close, and comes
\* alone, for an order the inbox has not refused.
LEMMA ObservationSignals ==
  ASSUME TypeOK, KnownByNow, NEW o \in Orders, NEW f \in ObservationEnvelopes(o)
  PROVE  /\ f.order = o
         /\ f.type = "SIGNAL" =>
              /\ f.at = now /\ now < Close /\ ~PreCancelled(o)
              /\ \A g \in ObservationEnvelopes(o) : g.type = "SIGNAL"
<1>1. /\ Signal(o, now).type = "SIGNAL" /\ Signal(o, now).order = o
      /\ Signal(o, now).at = now
  BY DEF Signal
<1>2. QED BY <1>1, ObservationBuilds

\* What a cycle sends to the inbox.
LEMMA CycleBuilds ==
  ASSUME TypeOK, KnownByNow, Cycle
  PROVE  /\ batch' \subseteq Facts
         /\ \A f \in batch' : f.type = "SIGNAL" =>
              f.at = now /\ now < Close /\ ~PreCancelled(f.order)
         /\ \A f, g \in batch' :
              f.type = "SIGNAL" /\ g.type = "CANCEL" /\ g.pre => f.order # g.order
<1>1. PICK quotes \in {{}, {now}, {now - 1} \ {0}} : batch' = Envelopes(quotes)
  BY DEF Cycle
<1>2. quotes \subseteq Instants
  <2>1. now \in 1..MaxTime
    BY DEF TypeOK
  <2>2. now \in 0..MaxTime /\ now - 1 \in 0..MaxTime
    BY <2>1, TimeAssumption
  <2>3. QED BY <2>2 DEF Instants
<1>3. \A f \in batch' :
        /\ f \in Facts
        /\ \/ f.type \in {"CLOCK", "QUOTE"}
           \/ f.type = "CANCEL" /\ ~f.pre
           \/ \E o \in Orders : f \in ObservationEnvelopes(o)
  BY <1>1, <1>2, EnvelopeKinds
<1>4. ASSUME NEW f \in batch', f.type = "SIGNAL"
      PROVE  /\ f.at = now /\ now < Close /\ ~PreCancelled(f.order)
             /\ \A g \in batch' : g.type = "CANCEL" /\ g.pre => f.order # g.order
  <2>1. PICK o \in Orders : f \in ObservationEnvelopes(o)
    BY <1>3, <1>4
  <2>2. /\ f.order = o /\ f.at = now /\ now < Close /\ ~PreCancelled(o)
        /\ \A g \in ObservationEnvelopes(o) : g.type = "SIGNAL"
    BY <1>4, <2>1, ObservationSignals
  <2>3. ASSUME NEW g \in batch', g.type = "CANCEL", g.pre PROVE f.order # g.order
    <3>1. PICK p \in Orders : g \in ObservationEnvelopes(p)
      BY <1>3, <2>3
    <3>2. g.order = p
      BY <3>1, ObservationSignals
    <3>3. QED BY <2>2, <2>3, <3>1, <3>2
  <2>4. QED BY <2>2, <2>3
<1>5. QED BY <1>3, <1>4

\* What the order service may do with the fact in flight.
Service(f) ==
  \/ Submit(f) \/ AdvanceClock(f) \/ CancelOrder(f) \/ AllocateQuote(f)
  \/ \E o \in Orders : VetoFill(f, o)

\* The life of a pending order.
Statuses == {"NONE", "PENDING", "FILLED", "CANCELLED", "CLOSED"}
OrderType == [status : Statuses, submittedAt : Instants]

\* An order is pending exactly while it has its reservation.
ReservedIsPending == \A o \in Orders : o \in reserved <=> order[o].status = "PENDING"

\* The fields of an order, read and changed.
LEMMA OrderFields ==
  ASSUME NEW x \in OrderType
  PROVE  /\ x.status \in Statuses /\ x.submittedAt \in Instants
         /\ x = [status |-> x.status, submittedAt |-> x.submittedAt]
         /\ \A s : [x EXCEPT !.status = s] = [status |-> s, submittedAt |-> x.submittedAt]
BY DEF OrderType

\* An order built of a status and an instant.
LEMMA OrderIsTyped ==
  ASSUME NEW s \in Statuses, NEW at \in Instants
  PROVE  [status |-> s, submittedAt |-> at] \in OrderType
BY DEF OrderType

\* One order: it stays, it is born of its signal, or it moves on.
Moves(o, f) ==
  \/ order'[o] = order[o]
  \/ /\ f.type = "SIGNAL" /\ f.order = o /\ order[o].status = "NONE"
     /\ order'[o] = [status |-> "PENDING", submittedAt |-> f.at]
     /\ lastEvent' = f.at /\ run # "COMPLETED"
  \/ /\ order'[o].submittedAt = order[o].submittedAt
     /\ \/ order[o].status = "PENDING" /\ order'[o].status \in {"FILLED", "CANCELLED"}
        \/ order[o].status = "FILLED" /\ order'[o].status = "CLOSED"

\* What a fact in flight may do to the orders, the reservations and the clocks.
LedgerShape(f) ==
  /\ clock' \in {clock, f.at} /\ lastEvent' \in {lastEvent, f.at}
  /\ lastQuote' # lastQuote => lastQuote' = f.at /\ lastEvent' = f.at
  /\ \A o \in Orders : Moves(o, f)
  /\ order' \in [Orders -> OrderType]
  /\ reserved' \subseteq Orders
  /\ ReservedIsPending => ReservedIsPending'

\* Cancelling pending orders keeps to that shape.
LEMMA CancelledMoves ==
  ASSUME NEW f \in Facts, TypeOK, NEW S, S \subseteq {o \in Orders : PendingOrder(o)},
         Cancelled(S, f.at), lastQuote' = lastQuote, clock' \in {clock, f.at}
  PROVE  LedgerShape(f)
<1>1. order \in [Orders -> OrderType] /\ reserved \subseteq Orders
  BY DEF TypeOK, OrderType, Statuses
<1>2. \A o \in Orders :
        /\ o \notin S => order'[o] = order[o]
        /\ o \in S => /\ order[o].status = "PENDING"
                      /\ order'[o] = [status |-> "CANCELLED", submittedAt |-> order[o].submittedAt]
  BY <1>1, OrderFields DEF Cancelled, PendingOrder
<1>3. ASSUME NEW o \in Orders PROVE Moves(o, f)
  <2>1. CASE o \notin S
    BY <1>2, <2>1 DEF Moves
  <2>2. CASE o \in S
    <3>1. order'[o].status = "CANCELLED" /\ order'[o].submittedAt = order[o].submittedAt
      <4>1. order'[o] = [status |-> "CANCELLED", submittedAt |-> order[o].submittedAt]
        BY <1>2, <2>2
      <4>2. QED BY <4>1
    <3>2. QED BY <1>2, <2>2, <3>1 DEF Moves
  <2>3. QED BY <2>1, <2>2
<1>4. order' \in [Orders -> OrderType]
  <2>1. ASSUME NEW o \in Orders PROVE order'[o] \in OrderType
    <3>1. order[o] \in OrderType
      BY <1>1
    <3>2. order[o].submittedAt \in Instants /\ "CANCELLED" \in Statuses
      BY <3>1, OrderFields DEF Statuses
    <3>3. [status |-> "CANCELLED", submittedAt |-> order[o].submittedAt] \in OrderType
      BY <3>2, OrderIsTyped
    <3>4. QED BY <3>1, <3>3, <1>2
  <2>2. order' = [o \in Orders |-> order'[o]]
    BY DEF Cancelled
  <2>3. QED BY <2>1, <2>2
<1>5. reserved' \subseteq Orders /\ (ReservedIsPending => ReservedIsPending')
  <2>1. reserved' = reserved \ S
    BY DEF Cancelled
  <2>2. \A o \in S : order'[o].status = "CANCELLED"
    <3>1. ASSUME NEW o \in S PROVE order'[o].status = "CANCELLED"
      <4>1. order'[o] = [status |-> "CANCELLED", submittedAt |-> order[o].submittedAt]
        BY <1>2
      <4>2. QED BY <4>1
    <3>2. QED BY <3>1
  <2>3. \A o \in Orders \ S : order'[o] = order[o]
    BY <1>2
  <2>4. QED BY <1>1, <2>1, <2>2, <2>3 DEF ReservedIsPending
<1>6. lastEvent' \in {lastEvent, f.at}
  BY DEF Cancelled
<1>7. QED BY <1>3, <1>4, <1>5, <1>6 DEF LedgerShape

\* A retry that finds its effects does too.
LEMMA UnchangedMoves ==
  ASSUME NEW f, TypeOK, UNCHANGED ledger, clock' = clock
  PROVE  LedgerShape(f)
<1>1. UNCHANGED <<order, reserved, lastEvent, lastQuote>>
  BY DEF ledger
<1>2. order \in [Orders -> OrderType] /\ reserved \subseteq Orders
  BY DEF TypeOK, OrderType, Statuses
<1>3. \A o \in Orders : Moves(o, f)
  BY <1>1 DEF Moves
<1>4. ReservedIsPending => ReservedIsPending'
  BY <1>1 DEF ReservedIsPending
<1>5. QED BY <1>1, <1>2, <1>3, <1>4 DEF LedgerShape

\* And the submission of a signal, accepted, vetoed or repeated.
LEMMA SubmitMoves ==
  ASSUME NEW f \in Facts, TypeOK, Submit(f)
  PROVE  LedgerShape(f)
<1>1. order \in [Orders -> OrderType] /\ reserved \subseteq Orders
  BY DEF TypeOK, OrderType, Statuses
<1>2. f.order \in Orders /\ f.at \in Instants /\ f.type = "SIGNAL"
  BY FactFields DEF IsFact, Submit
<1>3. clock' = clock /\ lastQuote' = lastQuote
  BY DEF Submit
<1>4. CASE UNCHANGED <<order, reserved, lastEvent>>
  BY <1>3, <1>4, UnchangedMoves DEF ledger
<1>5. CASE /\ ~Ordered(f.order)
           /\ order' = [order EXCEPT ![f.order] = [status |-> "PENDING", submittedAt |-> f.at]]
           /\ reserved' = reserved \cup {f.order}
           /\ lastEvent' = f.at
  <2>1. run # "COMPLETED"
    BY <1>2, <1>5 DEF Submit, Effect, Throws
  <2>2. \A o \in Orders : order'[o] =
          IF o = f.order THEN [status |-> "PENDING", submittedAt |-> f.at] ELSE order[o]
    BY <1>1, <1>2, <1>5
  <2>3. order[f.order].status = "NONE"
    BY <1>5 DEF Ordered
  <2>4. \A o \in Orders : Moves(o, f)
    BY <1>2, <1>5, <2>1, <2>2, <2>3 DEF Moves
  <2>5. order' \in [Orders -> OrderType]
    BY <1>1, <1>2, <1>5, OrderIsTyped DEF Statuses
  <2>6. reserved' \subseteq Orders /\ (ReservedIsPending => ReservedIsPending')
    <3>1. order'[f.order].status = "PENDING" /\ f.order \in reserved'
      BY <1>2, <1>5, <2>2
    <3>2. \A o \in Orders \ {f.order} :
            order'[o] = order[o] /\ (o \in reserved' <=> o \in reserved)
      BY <1>5, <2>2
    <3>3. QED BY <1>1, <1>2, <1>5, <3>1, <3>2 DEF ReservedIsPending
  <2>7. QED BY <1>3, <1>5, <2>4, <2>5, <2>6 DEF LedgerShape
<1>6. QED BY <1>4, <1>5 DEF Submit

\* And the allocation of a quote to the orders it fills, rejects and closes.
LEMMA AllocationMoves ==
  ASSUME NEW f \in Facts, TypeOK, AllocateQuote(f)
  PROVE  LedgerShape(f)
<1>1. order \in [Orders -> OrderType] /\ reserved \subseteq Orders
  BY DEF TypeOK, OrderType, Statuses
<1>2. clock' = clock
  BY DEF AllocateQuote
<1>3. CASE UNCHANGED ledger
  BY <1>2, <1>3, UnchangedMoves
<1>4. CASE \E filled, rejected, closed \in SUBSET Orders :
       /\ filled \cup rejected \subseteq {o \in Orders : PendingOrder(o)} \ Expiring(f.at)
       /\ filled \cap rejected = {}
       /\ closed \subseteq {o \in Orders : order[o].status = "FILLED"}
       /\ order' = [o \in Orders |->
            [order[o] EXCEPT !.status =
               CASE o \in filled -> "FILLED"
                 [] o \in rejected \cup Expiring(f.at) -> "CANCELLED"
                 [] o \in closed -> "CLOSED"
                 [] OTHER -> order[o].status]]
       /\ reserved' = reserved \ (filled \cup rejected \cup Expiring(f.at))
       /\ lastEvent' = f.at /\ lastQuote' = f.at
  <2>1. PICK filled \in SUBSET Orders, rejected \in SUBSET Orders, closed \in SUBSET Orders :
       /\ filled \cup rejected \subseteq {o \in Orders : PendingOrder(o)} \ Expiring(f.at)
       /\ filled \cap rejected = {}
       /\ closed \subseteq {o \in Orders : order[o].status = "FILLED"}
       /\ order' = [o \in Orders |->
            [order[o] EXCEPT !.status =
               CASE o \in filled -> "FILLED"
                 [] o \in rejected \cup Expiring(f.at) -> "CANCELLED"
                 [] o \in closed -> "CLOSED"
                 [] OTHER -> order[o].status]]
       /\ reserved' = reserved \ (filled \cup rejected \cup Expiring(f.at))
       /\ lastEvent' = f.at /\ lastQuote' = f.at
    BY <1>4
  <2> DEFINE gone == rejected \cup Expiring(f.at)
             next(o) == CASE o \in filled -> "FILLED"
                          [] o \in gone -> "CANCELLED"
                          [] o \in closed -> "CLOSED"
                          [] OTHER -> order[o].status
  <2>2. /\ \A o \in filled : order[o].status = "PENDING" /\ o \notin gone
        /\ \A o \in gone : o \in Orders /\ order[o].status = "PENDING"
        /\ \A o \in closed : order[o].status = "FILLED"
    BY <2>1 DEF Expiring, PendingOrder
  <2>3. \A o \in Orders : order'[o] = [order[o] EXCEPT !.status = next(o)]
    BY <2>1
  <2>4. reserved' = reserved \ (filled \cup gone) /\ order' = [o \in Orders |-> order'[o]]
    BY <2>1
  <2> HIDE DEF gone
  <2>5. \A o \in Orders :
          \/ next(o) = order[o].status /\ o \notin filled \cup gone \cup closed
          \/ order[o].status = "PENDING" /\ next(o) \in {"FILLED", "CANCELLED"} /\ o \in filled \cup gone
          \/ order[o].status = "FILLED" /\ next(o) = "CLOSED" /\ o \in closed
    BY <2>2
  <2> HIDE DEF next
  <2>6. \A o \in Orders : /\ order[o] \in OrderType
                          /\ order'[o] = [status |-> next(o), submittedAt |-> order[o].submittedAt]
    BY <1>1, <2>3, OrderFields
  <2>7. \A o \in Orders : Moves(o, f)
    <3>1. ASSUME NEW o \in Orders PROVE Moves(o, f)
      <4>1. order[o] = [status |-> order[o].status, submittedAt |-> order[o].submittedAt]
        BY <2>6, OrderFields
      <4>2. order'[o].status = next(o) /\ order'[o].submittedAt = order[o].submittedAt
        <5>1. order'[o] = [status |-> next(o), submittedAt |-> order[o].submittedAt]
          BY <2>6
        <5>2. QED BY <5>1
      <4>3. CASE next(o) = order[o].status
        <5>1. order'[o] = order[o]
          BY <4>1, <4>3, <2>6
        <5>2. QED BY <5>1 DEF Moves
      <4>4. CASE next(o) # order[o].status
        BY <4>2, <4>4, <2>5 DEF Moves
      <4>5. QED BY <4>3, <4>4
    <3>2. QED BY <3>1
  <2>8. order' \in [Orders -> OrderType]
    <3>1. ASSUME NEW o \in Orders PROVE order'[o] \in OrderType
      <4>1. next(o) \in Statuses /\ order[o].submittedAt \in Instants
        BY <2>5, <2>6, OrderFields DEF Statuses
      <4>2. QED BY <4>1, <2>6, OrderIsTyped
    <3>2. QED BY <3>1, <2>4
  <2>9. reserved' \subseteq Orders /\ (ReservedIsPending => ReservedIsPending')
    <3>1. reserved' \subseteq reserved
      BY <2>4
    <3>2. ASSUME ReservedIsPending, NEW o \in Orders
          PROVE  o \in reserved' <=> order'[o].status = "PENDING"
      <4>1. o \in reserved <=> order[o].status = "PENDING"
        BY <3>2 DEF ReservedIsPending
      <4>2. o \in reserved' <=> o \in reserved /\ o \notin filled \cup gone
        BY <2>4
      <4>3. order'[o].status = next(o)
        <5>1. order'[o] = [status |-> next(o), submittedAt |-> order[o].submittedAt]
          BY <2>6
        <5>2. QED BY <5>1
      <4>4. next(o) = "PENDING" <=> order[o].status = "PENDING" /\ o \notin filled \cup gone
        BY <2>2, <2>5
      <4>5. QED BY <4>1, <4>2, <4>3, <4>4
    <3>3. QED BY <1>1, <3>1, <3>2 DEF ReservedIsPending
  <2>10. lastEvent' = f.at /\ lastQuote' = f.at
    BY <2>1
  <2>11. QED BY <1>2, <2>7, <2>8, <2>9, <2>10 DEF LedgerShape
<1>5. QED BY <1>3, <1>4 DEF AllocateQuote

\* And everything the service does.
LEMMA ServiceMoves ==
  ASSUME NEW f \in Facts, TypeOK, Service(f)
  PROVE  LedgerShape(f)
<1>1. CASE AdvanceClock(f)
  <2>1. Cancelled(Expiring(f.at), f.at) /\ clock' = f.at /\ lastQuote' = lastQuote
    BY <1>1 DEF AdvanceClock
  <2>2. Expiring(f.at) \subseteq {o \in Orders : PendingOrder(o)}
    BY DEF Expiring
  <2>3. QED BY <2>1, <2>2, CancelledMoves
<1>2. CASE CancelOrder(f)
  <2>1. Cancelled({f.order} \cap {o \in Orders : PendingOrder(o)}, f.at)
        /\ clock' = clock /\ lastQuote' = lastQuote
    BY <1>2 DEF CancelOrder
  <2>2. QED BY <2>1, CancelledMoves
<1>3. ASSUME NEW o \in Orders, VetoFill(f, o) PROVE LedgerShape(f)
  <2>1. Cancelled({o}, f.at) /\ clock' = clock /\ lastQuote' = lastQuote
    BY <1>3 DEF VetoFill, barrier
  <2>2. {o} \subseteq {x \in Orders : PendingOrder(x)}
    BY <1>3 DEF VetoFill
  <2>3. QED BY <2>1, <2>2, CancelledMoves
<1>4. QED BY <1>1, <1>2, <1>3, SubmitMoves, AllocationMoves DEF Service

\* Its control: the fact is in flight and stays there.
LEMMA ServiceControl ==
  ASSUME NEW f, Service(f)
  PROVE  /\ phase = "claimed" /\ inflight = {f} /\ ~Throws(f)
         /\ UNCHANGED <<now, observed, invalidated, outcome, inflight, run, batch, crashes>>
         /\ \/ phase' = "effected" /\ result' \in Outcomes \ {"NULL"}
            \/ phase' = phase /\ result' = result
<1>1. CASE Submit(f)
  BY <1>1 DEF Submit, Effect, world, Outcomes
<1>2. CASE AdvanceClock(f)
  BY <1>2 DEF AdvanceClock, Effect, world, Outcomes
<1>3. CASE CancelOrder(f)
  BY <1>3 DEF CancelOrder, Effect, world, Outcomes
<1>4. CASE AllocateQuote(f)
  BY <1>4 DEF AllocateQuote, Effect, world, Outcomes
<1>5. CASE \E o \in Orders : VetoFill(f, o)
  BY <1>5 DEF VetoFill, world, barrier
<1>6. QED BY <1>1, <1>2, <1>3, <1>4, <1>5 DEF Service

\* Reconciling a late refusal cancels one pending order, dated no earlier than
\* the ledger.
LEMMA ReconcileMoves ==
  ASSUME NEW f \in Facts, TypeOK, Reconcile(f)
  PROVE  /\ f.order \in Orders /\ order[f.order].status = "PENDING"
         /\ \A o \in Orders \ {f.order} : order'[o] = order[o]
         /\ order'[f.order].status = "CANCELLED"
         /\ order'[f.order].submittedAt = order[f.order].submittedAt
         /\ order' \in [Orders -> OrderType]
         /\ reserved' = reserved \ {f.order}
         /\ lastQuote' = lastQuote
         /\ lastEvent' \in {order[f.order].submittedAt, lastEvent, clock}
         /\ lastEvent <= lastEvent'
<1>1. order \in [Orders -> OrderType]
  BY DEF TypeOK, OrderType, Statuses
<1>2. f.order \in Orders
  BY FactFields DEF IsFact, Reconcile
<1>3. order[f.order] \in OrderType
  BY <1>1, <1>2
<1>4. order' = [order EXCEPT ![f.order].status = "CANCELLED"]
  BY DEF Reconcile
<1>5. order'[f.order] = [order[f.order] EXCEPT !.status = "CANCELLED"]
  BY <1>1, <1>2, <1>4
<1>6. order'[f.order] = [status |-> "CANCELLED", submittedAt |-> order[f.order].submittedAt]
  BY <1>3, <1>5, OrderFields
<1>7. order'[f.order].status = "CANCELLED"
      /\ order'[f.order].submittedAt = order[f.order].submittedAt
  BY <1>6
<1>8. \A o \in Orders \ {f.order} : order'[o] = order[o]
  BY <1>1, <1>4
<1>9. order' \in [Orders -> OrderType]
  <2>1. [status |-> "CANCELLED", submittedAt |-> order[f.order].submittedAt] \in OrderType
    <3>1. order[f.order].submittedAt \in Instants /\ "CANCELLED" \in Statuses
      BY <1>3, OrderFields DEF Statuses
    <3>2. QED BY <3>1, OrderIsTyped
  <2>2. order' = [order EXCEPT ![f.order] = [order[f.order] EXCEPT !.status = "CANCELLED"]]
    BY <1>4
  <2>3. order'[f.order] \in OrderType
    BY <2>1, <1>6
  <2>4. \A o \in Orders : order'[o] \in OrderType
    BY <1>1, <1>8, <2>3
  <2>5. DOMAIN order' = Orders /\ order' = [o \in Orders |-> order'[o]]
    BY <1>1, <2>2
  <2>6. QED BY <2>4, <2>5
<1>10. lastEvent' \in {order[f.order].submittedAt, lastEvent, clock} /\ lastEvent <= lastEvent'
  <2>1. lastEvent \in Int /\ clock \in Int /\ order[f.order].submittedAt \in Int
    BY <1>3, OrderFields DEF TypeOK, Instants
  <2>2. lastEvent' = Later(order[f.order].submittedAt, Later(lastEvent, clock))
    BY DEF Reconcile
  <2>3. QED BY <2>1, <2>2 DEF Later
<1>11. order[f.order].status = "PENDING" /\ reserved' = reserved \ {f.order} /\ lastQuote' = lastQuote
  BY DEF Reconcile
<1>12. QED BY <1>2, <1>7, <1>8, <1>9, <1>10, <1>11

\* An admission takes one fact of the batch and touches nothing else but what
\* it reconciles.
LEMMA AdmissionControl ==
  ASSUME NEW f, Admit(f)
  PROVE  /\ phase = "enqueue" /\ f \in batch /\ batch' = batch \ {f}
         /\ UNCHANGED <<now, observed, invalidated, clock, inflight, run, phase, result, crashes>>
         /\ \/ UNCHANGED outcome /\ UNCHANGED <<order, reserved, lastEvent, lastQuote>>
            \/ UNCHANGED <<order, reserved, lastEvent, lastQuote>> /\ ~AlreadyKnown(f)
            \/ Reconcile(f)
BY DEF Admit, world, barrier, ledger, Insert, Suppress, InsertSettled

\* An acknowledgement answers the fact in flight and no other.
LEMMA AcknowledgeAnswers ==
  ASSUME TypeOK, Acknowledge
  PROVE  /\ Inbox' = Inbox /\ outcome' \in [Inbox -> Outcomes]
         /\ \A f \in Inbox : \/ outcome'[f] = outcome[f]
                             \/ f \in inflight /\ outcome'[f] = result
<1>1. PICK f \in inflight :
        outcome' = IF outcome[f] = "NULL" THEN With(outcome, f, result) ELSE outcome
  BY DEF Acknowledge
<1>2. f \in Inbox /\ f \in Facts /\ outcome \in [Inbox -> Outcomes] /\ result \in Outcomes
      /\ Inbox \subseteq Facts
  BY DEF TypeOK
<1>3. CASE outcome[f] = "NULL"
  <2>1. outcome' = With(outcome, f, result)
    BY <1>1, <1>3
  <2>2. With(outcome, f, result) \in [Inbox \cup {f} -> Outcomes]
    BY <1>2, WithIsTyped
  <2>3. Inbox \cup {f} = Inbox
    BY <1>2
  <2>4. outcome' \in [Inbox -> Outcomes] /\ Inbox' = Inbox
    BY <2>1, <2>2, <2>3 DEF Inbox
  <2>5. \A g \in Inbox : outcome'[g] = IF g = f THEN result ELSE outcome[g]
    BY <2>1 DEF With, Inbox
  <2>6. QED BY <2>4, <2>5
<1>4. CASE outcome[f] # "NULL"
  BY <1>1, <1>2, <1>4 DEF Inbox
<1>5. QED BY <1>3, <1>4

\* Who changes what.
LEMMA Footprints ==
  ASSUME Next
  PROVE  /\ \/ UNCHANGED <<clock, order, reserved, lastEvent, lastQuote>>
            \/ \E f \in batch : Admit(f)
            \/ \E f \in inflight : Service(f)
         /\ \/ UNCHANGED outcome
            \/ Acknowledge
            \/ \E f \in batch : Admit(f)
         /\ \/ UNCHANGED inflight
            \/ Claim
            \/ Acknowledge
         /\ \/ UNCHANGED batch
            \/ Cycle
            \/ \E f \in batch : Admit(f)
         /\ \/ UNCHANGED run
            \/ Settle
         /\ \/ UNCHANGED <<now, observed, invalidated>>
            \/ Tick
            \/ \E o \in Orders : Observe(o) \/ Invalidate(o)
<1>1. CASE \E f \in batch : Admit(f)
  <2>1. PICK f \in batch : Admit(f)
    BY <1>1
  <2>2. QED BY <1>1, <2>1, AdmissionControl
<1>2. CASE \E f \in inflight : Service(f)
  <2>1. PICK f \in inflight : Service(f)
    BY <1>2
  <2>2. QED BY <1>2, <2>1, ServiceControl
<1>3. CASE Cycle
  BY <1>3 DEF Cycle, world, barrier, ledger
<1>4. CASE Acknowledge
  BY <1>4 DEF Acknowledge, world, ledger
<1>5. CASE Claim
  BY <1>5 DEF Claim, world, ledger
<1>6. CASE Enqueued \/ StartDrain \/ DrainEnds \/ Refused \/ Crash
  BY <1>6 DEF Enqueued, StartDrain, DrainEnds, Refused, Crash, world, barrier, ledger
<1>7. CASE Settle
  BY <1>7 DEF Settle, world, barrier, ledger
<1>8. CASE Tick
  BY <1>8 DEF Tick, barrier, ledger
<1>9. CASE \E o \in Orders : Observe(o) \/ Invalidate(o)
  BY <1>9 DEF Observe, Invalidate, barrier, ledger
<1>10. QED
  BY <1>1, <1>2, <1>3, <1>4, <1>5, <1>6, <1>7, <1>8, <1>9 DEF Next, Adapter, World, Service

\* The parts of TypeOK, one for each group of variables.
InboxTyped ==
  /\ Inbox \subseteq Facts /\ outcome \in [Inbox -> Outcomes]
  /\ inflight \subseteq Inbox /\ \A f, g \in inflight : f = g
  /\ batch \subseteq Facts
LedgerTyped ==
  /\ clock \in Instants /\ lastEvent \in Instants /\ lastQuote \in Instants
  /\ order \in [Orders -> OrderType] /\ reserved \subseteq Orders
WorldTyped ==
  /\ now \in 1..MaxTime
  /\ observed \in [Orders -> Instants]
  /\ invalidated \subseteq Orders \X Instants
ControlTyped ==
  /\ run \in {"RUNNING", "CLOSE_PENDING", "COMPLETED"}
  /\ phase \in {"idle", "enqueue", "drain", "claimed", "effected"}
  /\ result \in Outcomes
  /\ crashes \in 0..MaxCrashes

\* They make up TypeOK.
LEMMA TypeParts == TypeOK <=> InboxTyped /\ LedgerTyped /\ WorldTyped /\ ControlTyped
BY DEF TypeOK, InboxTyped, LedgerTyped, WorldTyped, ControlTyped, OrderType, Statuses

\* They hold of a run without facts.
LEMMA InitTyped == Init => TypeOK
<1> SUFFICES ASSUME Init PROVE TypeOK
  OBVIOUS
<1>1. InboxTyped
  <2>1. Inbox = {} /\ outcome \in [Inbox -> Outcomes]
    BY DEF Init, Inbox
  <2>2. inflight = {} /\ batch = {}
    BY DEF Init
  <2>3. QED BY <2>1, <2>2 DEF InboxTyped
<1>2. 0 \in Instants /\ 1 \in 1..MaxTime
  BY TimeAssumption DEF Instants
<1>3. LedgerTyped
  <2>1. [status |-> "NONE", submittedAt |-> 0] \in OrderType
    BY <1>2, OrderIsTyped DEF Statuses
  <2>2. QED BY <1>2, <2>1 DEF Init, LedgerTyped
<1>4. WorldTyped
  BY <1>2 DEF Init, WorldTyped
<1>5. ControlTyped
  BY TimeAssumption DEF Init, ControlTyped, Outcomes
<1>6. QED BY <1>1, <1>3, <1>4, <1>5, TypeParts

\* Facts, outcomes, barrier and batch stay well formed.
LEMMA InboxStaysTyped ==
  ASSUME TypeOK, KnownByNow, Next
  PROVE  InboxTyped'
<1>1. InboxTyped
  BY TypeParts
<1>2. Inbox' \subseteq Facts /\ outcome' \in [Inbox' -> Outcomes] /\ Inbox \subseteq Inbox'
  <2>1. CASE UNCHANGED outcome
    BY <1>1, <2>1 DEF InboxTyped, Inbox
  <2>2. CASE Acknowledge
    BY <1>1, <2>2, AcknowledgeAnswers DEF InboxTyped
  <2>3. CASE \E f \in batch : Admit(f)
    <3>1. PICK f \in batch : Admit(f)
      BY <2>3
    <3>2. f \in Facts
      BY <1>1 DEF InboxTyped
    <3>3. Admitted(f)
      BY <3>1, <3>2, AdmissionAdmits
    <3>4. QED BY <1>1, <3>2, <3>3 DEF InboxTyped, Admitted
  <2>4. QED BY <2>1, <2>2, <2>3, Footprints
<1>3. inflight' \subseteq Inbox' /\ \A f, g \in inflight' : f = g
  <2>1. CASE UNCHANGED inflight
    BY <1>1, <1>2, <2>1 DEF InboxTyped
  <2>2. CASE Claim
    <3>1. PICK f \in Pending : inflight' = {f}
      BY <2>2 DEF Claim
    <3>2. QED BY <1>2, <3>1 DEF Pending
  <2>3. CASE Acknowledge
    BY <2>3 DEF Acknowledge
  <2>4. QED BY <2>1, <2>2, <2>3, Footprints
<1>4. batch' \subseteq Facts
  <2>1. CASE UNCHANGED batch
    BY <1>1, <2>1 DEF InboxTyped
  <2>2. CASE Cycle
    BY <2>2, CycleBuilds
  <2>3. CASE \E f \in batch : Admit(f)
    BY <1>1, <2>3, AdmissionControl DEF InboxTyped
  <2>4. QED BY <2>1, <2>2, <2>3, Footprints
<1>5. QED BY <1>2, <1>3, <1>4 DEF InboxTyped

\* Orders, reservations and clocks stay well formed.
LEMMA LedgerStaysTyped ==
  ASSUME TypeOK, Next
  PROVE  LedgerTyped'
<1>1. LedgerTyped /\ InboxTyped
  BY TypeParts
<1>2. CASE UNCHANGED <<clock, order, reserved, lastEvent, lastQuote>>
  BY <1>1, <1>2 DEF LedgerTyped
<1>3. CASE \E f \in batch : Admit(f)
  <2>1. PICK f \in batch : Admit(f)
    BY <1>3
  <2>2. f \in Facts /\ clock' = clock
    BY <1>1, <2>1, AdmissionControl DEF InboxTyped
  <2>3. CASE Reconcile(f)
    <3>1. /\ order' \in [Orders -> OrderType] /\ reserved' = reserved \ {f.order}
          /\ lastQuote' = lastQuote
          /\ f.order \in Orders
          /\ lastEvent' \in {order[f.order].submittedAt, lastEvent, clock}
      BY <2>2, <2>3, ReconcileMoves
    <3>2. order[f.order].submittedAt \in Instants
      BY <1>1, <3>1, OrderFields DEF LedgerTyped
    <3>3. QED BY <1>1, <2>2, <3>1, <3>2 DEF LedgerTyped
  <2>4. CASE UNCHANGED <<order, reserved, lastEvent, lastQuote>>
    BY <1>1, <2>2, <2>4 DEF LedgerTyped
  <2>5. QED BY <2>1, <2>3, <2>4, AdmissionControl
<1>4. CASE \E f \in inflight : Service(f)
  <2>1. PICK f \in inflight : Service(f)
    BY <1>4
  <2>2. f \in Facts
    BY <1>1 DEF InboxTyped
  <2>3. f.at \in Instants
    BY <2>2, FactFields DEF IsFact
  <2>4. LedgerShape(f)
    BY <2>1, <2>2, ServiceMoves
  <2>5. QED BY <1>1, <2>3, <2>4 DEF LedgerTyped, LedgerShape
<1>5. QED BY <1>2, <1>3, <1>4, Footprints

\* The clock runs forward and dates what is observed.
LEMMA WorldStaysTyped ==
  ASSUME TypeOK, KnownByNow, Next
  PROVE  WorldTyped' /\ KnownByNow' /\ now <= now'
<1>1. WorldTyped /\ now \in Int /\ MaxTime \in Int
  BY TypeParts, TimeAssumption DEF WorldTyped
<1>2. CASE UNCHANGED <<now, observed, invalidated>>
  BY <1>1, <1>2 DEF WorldTyped, KnownByNow
<1>3. CASE Tick
  <2>1. now' = now + 1 /\ now < MaxTime /\ UNCHANGED <<observed, invalidated>>
    BY <1>3 DEF Tick
  <2>2. now' \in 1..MaxTime /\ now <= now'
    BY <1>1, <2>1 DEF WorldTyped
  <2>3. \A e \in invalidated : e[2] \in Int
    BY <1>1, TimeAssumption DEF WorldTyped, Instants
  <2>4. KnownByNow'
    BY <1>1, <2>1, <2>3 DEF KnownByNow
  <2>5. QED BY <1>1, <2>1, <2>2, <2>4 DEF WorldTyped
<1>4. ASSUME NEW o \in Orders, Observe(o) PROVE WorldTyped' /\ KnownByNow' /\ now <= now'
  <2>1. PICK at \in 1..now : observed' = [observed EXCEPT ![o] = at]
    BY <1>4 DEF Observe
  <2>2. UNCHANGED <<now, invalidated>>
    BY <1>4 DEF Observe
  <2>3. at \in Instants
    BY <1>1, TimeAssumption DEF WorldTyped, Instants
  <2>4. QED BY <1>1, <2>1, <2>2, <2>3 DEF WorldTyped, KnownByNow
<1>5. ASSUME NEW o \in Orders, Invalidate(o) PROVE WorldTyped' /\ KnownByNow' /\ now <= now'
  <2>1. PICK at \in {now - 1, now} : invalidated' = invalidated \cup {<<o, at>>}
    BY <1>5 DEF Invalidate
  <2>2. UNCHANGED <<now, observed>>
    BY <1>5 DEF Invalidate
  <2>3. at \in Instants /\ at <= now
    BY <1>1, TimeAssumption DEF WorldTyped, Instants
  <2>4. WorldTyped'
    BY <1>1, <2>1, <2>2, <2>3 DEF WorldTyped
  <2>5. KnownByNow'
    BY <2>1, <2>2, <2>3 DEF KnownByNow
  <2>6. QED BY <1>1, <2>2, <2>4, <2>5
<1>6. QED BY <1>2, <1>3, <1>4, <1>5, Footprints

\* So do the lifecycle, the holder of the lock and its result.
LEMMA ControlStaysTyped ==
  ASSUME TypeOK, Next
  PROVE  ControlTyped'
<1>1. ControlTyped
  BY TypeParts
<1>2. CASE \E f \in batch : Admit(f)
  BY <1>1, <1>2, AdmissionControl DEF ControlTyped
<1>3. CASE \E f \in inflight : Service(f)
  <2>1. PICK f \in inflight : Service(f)
    BY <1>3
  <2>2. /\ UNCHANGED <<run, crashes>>
        /\ phase' \in {"effected", phase} /\ result' \in Outcomes \cup {result}
    BY <2>1, ServiceControl
  <2>3. QED BY <1>1, <2>2 DEF ControlTyped
<1>4. CASE Cycle
  BY <1>1, <1>4 DEF Cycle, ControlTyped
<1>5. CASE Acknowledge \/ Claim \/ Enqueued \/ StartDrain
  BY <1>1, <1>5 DEF Acknowledge, Claim, Enqueued, StartDrain, ControlTyped
<1>6. CASE DrainEnds \/ Refused
  BY <1>1, <1>6 DEF DrainEnds, Refused, ControlTyped, Outcomes
<1>7. CASE Crash
  BY <1>1, <1>7, TimeAssumption DEF Crash, ControlTyped, Outcomes
<1>8. CASE Settle
  BY <1>1, <1>8 DEF Settle, ControlTyped
<1>9. CASE Tick \/ \E o \in Orders : Observe(o) \/ Invalidate(o)
  BY <1>1, <1>9 DEF Tick, Observe, Invalidate, ControlTyped
<1>10. QED
  BY <1>2, <1>3, <1>4, <1>5, <1>6, <1>7, <1>8, <1>9 DEF Next, Adapter, World, Service

\* A fact in flight waits for its outcome while the lock is held; only an
\* enqueue has a batch.
HeldIsPending ==
  /\ phase \in {"claimed", "effected"} => inflight # {} /\ inflight \subseteq Pending
  /\ phase = "effected" => result # "NULL"
  /\ phase # "enqueue" => batch = {}
\* No unanswered fact is dated before the clock of the run or its ledger.
PendingIsAhead == \A g \in Pending : clock <= g.at /\ lastEvent <= g.at
\* The ledger is not ahead of the clock and of the facts that were taken up,
\* and no order or quote is ahead of the ledger: this is why admission, which
\* sees clock and facts alone, can tell that a fact comes too late.
LedgerIsKnown ==
  /\ lastQuote <= lastEvent
  /\ \A o \in Orders : order[o].status # "NONE" => order[o].submittedAt <= lastEvent
  /\ lastEvent <= clock \/ \E f \in Processed \cup inflight : lastEvent <= f.at
\* Signals precede the close, and none is left when the run is completed.
SignalsInTime ==
  /\ \A f \in Inbox \cup batch : f.type = "SIGNAL" => f.at < Close
  /\ run = "COMPLETED" =>
       now >= Close /\ \A f \in Pending \cup batch : f.type # "SIGNAL"
\* A refused order is not pending, and no signal of it waits.
Refusals ==
  /\ \A f \in Inbox : f.type = "CANCEL" /\ f.pre =>
       /\ order[f.order].status # "PENDING"
       /\ order[f.order].status = "NONE" => SignalsOf(f.order) \cap Pending = {}
  /\ \A f \in batch, g \in Inbox \cup batch :
       f.type = "SIGNAL" /\ g.type = "CANCEL" /\ g.pre => f.order # g.order

\* The inductive invariant.
IInv ==
  /\ TypeOK /\ KnownByNow
  /\ HeldIsPending /\ BarrierIsFirst
  /\ PendingIsAhead /\ LedgerIsKnown
  /\ ReservedIsPending /\ CompletedRunIsResolved
  /\ SignalsInTime /\ Refusals

\* An answered fact stays, with the answer it has.
AnswersKept == Processed \subseteq Processed' /\ \A g \in Processed : outcome'[g] = outcome[g]

\* How the inbox moves: it grows by admissions, which are not late, and facts
\* get outcomes which they keep.
InboxMoves ==
  /\ Inbox \subseteq Inbox' /\ Inbox' \subseteq Inbox \cup batch
  /\ Pending' \cap Inbox \subseteq Pending
  /\ AnswersKept
  /\ \A g \in Pending' \ Pending : g \in batch /\ ~Late(g)

\* Every step moves the inbox that way.
LEMMA InboxMoving ==
  ASSUME TypeOK, HeldIsPending, Next
  PROVE  InboxMoves
<1>1. batch \subseteq Facts
  BY DEF TypeOK
<1>2. CASE UNCHANGED outcome
  BY <1>2 DEF InboxMoves, AnswersKept, Inbox, Pending, Processed
<1>3. CASE Acknowledge
  <2>1. /\ Inbox' = Inbox
        /\ \A f \in Inbox : \/ outcome'[f] = outcome[f]
                            \/ f \in inflight /\ outcome'[f] = result
    BY <1>3, AcknowledgeAnswers
  <2>2. result # "NULL" /\ inflight \subseteq Pending
    BY <1>3 DEF HeldIsPending, Acknowledge
  <2>3. Pending' \subseteq Pending
    BY <2>1, <2>2 DEF Pending
  <2>4. AnswersKept
    BY <2>1, <2>2 DEF AnswersKept, Processed, Pending
  <2>5. QED BY <2>1, <2>3, <2>4 DEF InboxMoves
<1>4. CASE \E f \in batch : Admit(f)
  <2>1. PICK f \in batch : Admit(f)
    BY <1>4
  <2>2. Admitted(f)
    BY <1>1, <2>1, AdmissionAdmits
  <2>3. Pending' \cap Inbox \subseteq Pending
    BY <2>2 DEF Admitted, Processed, Pending
  <2>4. QED BY <2>1, <2>2, <2>3 DEF InboxMoves, AnswersKept, Admitted
<1>5. QED BY <1>2, <1>3, <1>4, Footprints

\* The barrier is set before an effect and cleared with the outcome.
LEMMA HeldStaysPending ==
  ASSUME TypeOK, HeldIsPending, Next
  PROVE  HeldIsPending'
<1>1. CASE \E f \in batch : Admit(f)
  <2>1. phase = "enqueue" /\ phase' = "enqueue"
    BY <1>1, AdmissionControl
  <2>2. QED BY <2>1 DEF HeldIsPending
<1>2. CASE \E f \in inflight : Service(f)
  <2>1. PICK f \in inflight : Service(f)
    BY <1>2
  <2>2. /\ phase = "claimed" /\ UNCHANGED <<outcome, inflight, batch>>
        /\ \/ phase' = "effected" /\ result' # "NULL"
           \/ phase' = "claimed"
    BY <2>1, ServiceControl
  <2>3. Pending' = Pending
    BY <2>2 DEF Pending, Inbox
  <2>4. QED BY <2>2, <2>3 DEF HeldIsPending
<1>3. CASE Cycle
  BY <1>3 DEF Cycle, HeldIsPending
<1>4. CASE Claim
  <2>1. PICK f \in Pending : inflight' = {f}
    BY <1>4 DEF Claim
  <2>2. Pending' = Pending /\ phase' = "claimed" /\ batch' = batch /\ phase = "drain"
    BY <1>4 DEF Claim, Pending, Inbox
  <2>3. QED BY <2>1, <2>2 DEF HeldIsPending
<1>5. CASE Acknowledge
  BY <1>5 DEF Acknowledge, HeldIsPending
<1>6. CASE Enqueued \/ StartDrain \/ DrainEnds \/ Refused \/ Crash
  BY <1>6 DEF Enqueued, StartDrain, DrainEnds, Refused, Crash, HeldIsPending
<1>7. CASE Settle \/ Tick \/ \E o \in Orders : Observe(o) \/ Invalidate(o)
  <2>1. UNCHANGED <<phase, inflight, outcome, batch, result>>
    BY <1>7 DEF Settle, Tick, Observe, Invalidate, barrier
  <2>2. Pending' = Pending
    BY <2>1 DEF Pending, Inbox
  <2>3. QED BY <2>1, <2>2 DEF HeldIsPending
<1>8. QED
  BY <1>1, <1>2, <1>3, <1>4, <1>5, <1>6, <1>7 DEF Next, Adapter, World, Service

\* A fact before the one in flight is late, so none overtakes it.
LEMMA BarrierStaysFirst ==
  ASSUME TypeOK, HeldIsPending, BarrierIsFirst, Next
  PROVE  BarrierIsFirst'
<1>1. InboxMoves
  BY InboxMoving
<1>2. CASE UNCHANGED inflight
  <2>1. SUFFICES ASSUME NEW f \in inflight, f \in Pending', NEW g \in Pending', g # f
                 PROVE  Before(f, g)
    BY <1>2 DEF BarrierIsFirst, First
  <2>2. f \in Pending /\ First(f)
    BY <1>1, <2>1 DEF BarrierIsFirst, InboxMoves, TypeOK
  <2>3. CASE g \in Pending
    BY <2>1, <2>2, <2>3 DEF First
  <2>4. CASE g \notin Pending
    BY <1>1, <2>1, <2>4 DEF InboxMoves, Late
  <2>5. QED BY <2>3, <2>4
<1>3. CASE Claim
  <2>1. PICK f \in Pending : First(f) /\ inflight' = {f}
    BY <1>3 DEF Claim
  <2>2. Pending' = Pending
    BY <1>3 DEF Claim, Pending, Inbox
  <2>3. QED BY <2>1, <2>2 DEF BarrierIsFirst, First
<1>4. CASE Acknowledge
  BY <1>4 DEF Acknowledge, BarrierIsFirst
<1>5. QED BY <1>2, <1>3, <1>4, Footprints

\* The fact in flight and the facts behind it.
LEMMA InFlight ==
  ASSUME TypeOK, HeldIsPending, BarrierIsFirst, PendingIsAhead,
         NEW f \in inflight, Service(f)
  PROVE  /\ f \in Facts /\ f \in Pending /\ f.at \in Int
         /\ clock <= f.at /\ lastEvent <= f.at
         /\ \A g \in Pending : g \in Facts /\ f.at <= g.at
<1>1. f \in Pending /\ First(f)
  BY ServiceControl DEF HeldIsPending, BarrierIsFirst
<1>2. Pending \subseteq Facts
  BY DEF TypeOK, Pending
<1>3. f.at \in Int /\ \A g \in Pending : f.at <= g.at
  BY <1>1, <1>2, FactTime, EarlierFacts DEF First
<1>4. QED BY <1>1, <1>2, <1>3 DEF PendingIsAhead

\* The instants of the state can be compared.
LEMMA ClocksAreNumbers ==
  ASSUME TypeOK
  PROVE  /\ clock \in Int /\ lastEvent \in Int /\ lastQuote \in Int /\ now \in Int
         /\ \A o \in Orders : order[o].submittedAt \in Int
         /\ \A f \in Inbox \cup batch : f \in Facts /\ f.at \in Int
<1>1. clock \in Int /\ lastEvent \in Int /\ lastQuote \in Int
  BY DEF TypeOK, Instants
<1>2. now \in Int
  BY TimeAssumption DEF TypeOK
<1>3. \A o \in Orders : order[o].submittedAt \in Instants
  BY OrderFields, TypeParts DEF LedgerTyped
<1>4. \A f \in Inbox \cup batch : f \in Facts
  BY DEF TypeOK
<1>5. \A o \in Orders : order[o].submittedAt \in Int
  BY <1>3, TimeAssumption DEF Instants
<1>6. QED BY <1>1, <1>2, <1>4, <1>5, FactTime

\* A fact admitted is ahead of all that was applied; a fact applied is the
\* first, so all others are ahead of it.
LEMMA PendingStaysAhead ==
  ASSUME TypeOK, HeldIsPending, BarrierIsFirst, PendingIsAhead, LedgerIsKnown, Next
  PROVE  PendingIsAhead'
<1>1. InboxMoves
  BY InboxMoving
<1>2. /\ clock \in Int /\ lastEvent \in Int
      /\ \A o \in Orders : order[o].submittedAt \in Int
      /\ \A f \in Inbox \cup batch : f \in Facts /\ f.at \in Int
  BY ClocksAreNumbers
<1>3. ASSUME NEW g \in Pending' PROVE clock <= g.at /\ lastEvent <= g.at /\ g.at \in Int
  <2>1. CASE g \in Pending
    BY <1>2, <2>1 DEF PendingIsAhead, Pending
  <2>2. CASE g \notin Pending
    <3>1. g \in batch /\ ~Late(g)
      BY <1>1, <1>3, <2>2 DEF InboxMoves
    <3>2. g.at \in Int /\ g \in Facts
      BY <1>2, <3>1
    <3>3. clock <= g.at
      BY <1>2, <3>1, <3>2 DEF Late
    <3>4. \A f \in Processed : f.at <= g.at
      BY <1>2, <3>1, <3>2 DEF Late, Processed
    <3>5. \A f \in inflight : f.at <= g.at
      <4>1. \A f \in inflight : Before(f, g) /\ f \in Facts
        BY <3>1 DEF Late, TypeOK
      <4>2. QED BY <3>2, <4>1, EarlierFacts
    <3>6. \A f \in Processed \cup inflight : f.at \in Int
      BY <1>2 DEF Processed, TypeOK
    <3>7. lastEvent <= g.at
      BY <1>2, <3>2, <3>3, <3>4, <3>5, <3>6 DEF LedgerIsKnown
    <3>8. QED BY <3>2, <3>3, <3>7
  <2>3. QED BY <2>1, <2>2
<1>4. CASE UNCHANGED <<clock, order, reserved, lastEvent, lastQuote>>
  BY <1>3, <1>4 DEF PendingIsAhead
<1>5. CASE \E f \in batch : Admit(f)
  <2>1. PICK f \in batch : Admit(f)
    BY <1>5
  <2>2. clock' = clock /\ f \in Facts
    BY <2>1, <1>2, AdmissionControl
  <2>3. CASE Reconcile(f)
    <3>1. /\ f.order \in Orders /\ order[f.order].status = "PENDING"
          /\ lastEvent' \in {order[f.order].submittedAt, lastEvent, clock}
      BY <2>2, <2>3, ReconcileMoves
    <3>2. order[f.order].submittedAt <= lastEvent
      BY <3>1 DEF LedgerIsKnown
    <3>3. \A g \in Pending' : lastEvent' <= g.at
      BY <1>2, <1>3, <3>1, <3>2
    <3>4. QED BY <1>3, <2>2, <3>3 DEF PendingIsAhead
  <2>4. CASE UNCHANGED <<order, reserved, lastEvent, lastQuote>>
    BY <1>3, <2>2, <2>4 DEF PendingIsAhead
  <2>5. QED BY <2>1, <2>3, <2>4, AdmissionControl
<1>6. CASE \E f \in inflight : Service(f)
  <2>1. PICK f \in inflight : Service(f)
    BY <1>6
  <2>2. f \in Facts /\ \A g \in Pending : f.at <= g.at
    BY <2>1, InFlight
  <2>3. Pending' = Pending
    BY <2>1, ServiceControl DEF Pending, Inbox
  <2>4. clock' \in {clock, f.at} /\ lastEvent' \in {lastEvent, f.at}
    BY <2>1, <2>2, ServiceMoves DEF LedgerShape
  <2>5. QED BY <2>2, <2>3, <2>4 DEF PendingIsAhead
<1>7. QED BY <1>4, <1>5, <1>6, Footprints

\* The ledger moves by facts taken up, or to the clock.
LEMMA LedgerStaysKnown ==
  ASSUME TypeOK, HeldIsPending, BarrierIsFirst, PendingIsAhead, LedgerIsKnown, Next
  PROVE  LedgerIsKnown'
<1>1. InboxMoves
  BY InboxMoving
<1>2. /\ clock \in Int /\ lastEvent \in Int /\ lastQuote \in Int
      /\ \A o \in Orders : order[o].submittedAt \in Int
      /\ \A f \in Inbox \cup batch : f \in Facts /\ f.at \in Int
  BY ClocksAreNumbers
<1>3. inflight \subseteq Inbox
  BY DEF TypeOK
<1>4. Processed \cup inflight \subseteq Processed' \cup inflight'
  <2>1. CASE UNCHANGED inflight
    BY <1>1, <2>1 DEF InboxMoves, AnswersKept
  <2>2. CASE Claim
    <3>1. PICK f \in Pending : inflight \cap Pending \subseteq {f} /\ inflight' = {f}
      BY <2>2 DEF Claim
    <3>2. QED BY <1>1, <1>3, <3>1 DEF InboxMoves, Processed
  <2>3. CASE Acknowledge
    <3>1. PICK f \in inflight :
            outcome' = IF outcome[f] = "NULL" THEN With(outcome, f, result) ELSE outcome
      BY <2>3 DEF Acknowledge
    <3>2. inflight = {f} /\ f \in Inbox /\ result # "NULL"
      BY <2>3, <3>1 DEF TypeOK, HeldIsPending, Acknowledge
    <3>3. f \in Inbox' /\ outcome'[f] # "NULL"
      BY <3>1, <3>2 DEF With, Inbox
    <3>4. QED BY <1>1, <3>2, <3>3 DEF InboxMoves, Processed, Pending
  <2>4. QED BY <2>1, <2>2, <2>3, Footprints
<1>5. lastEvent <= clock \/ \E f \in Processed' \cup inflight' : lastEvent <= f.at
  BY <1>4 DEF LedgerIsKnown
<1>6. CASE UNCHANGED <<clock, order, reserved, lastEvent, lastQuote>>
  BY <1>5, <1>6 DEF LedgerIsKnown
<1>7. CASE \E f \in batch : Admit(f)
  <2>1. PICK f \in batch : Admit(f)
    BY <1>7
  <2>2. clock' = clock /\ f \in Facts
    BY <2>1, <1>2, AdmissionControl
  <2>3. CASE Reconcile(f)
    <3>1. /\ f.order \in Orders /\ order[f.order].status = "PENDING"
          /\ \A o \in Orders : order'[o] = order[o] \/ o = f.order
          /\ order'[f.order].submittedAt = order[f.order].submittedAt
          /\ lastQuote' = lastQuote
          /\ lastEvent' \in {order[f.order].submittedAt, lastEvent, clock}
          /\ lastEvent <= lastEvent'
      BY <2>2, <2>3, ReconcileMoves
    <3>2. order[f.order].submittedAt <= lastEvent
      BY <3>1 DEF LedgerIsKnown
    <3>3. lastEvent' = lastEvent \/ lastEvent' = clock
      BY <1>2, <3>1, <3>2
    <3>4. lastQuote' <= lastEvent'
      BY <1>2, <3>1, <3>3 DEF LedgerIsKnown
    <3>5. \A o \in Orders : order'[o].status # "NONE" => order'[o].submittedAt <= lastEvent'
      <4>1. ASSUME NEW o \in Orders, order'[o].status # "NONE"
            PROVE  order'[o].submittedAt = order[o].submittedAt /\ order[o].status # "NONE"
        BY <3>1, <4>1
      <4>2. \A o \in Orders : order[o].status # "NONE" => order[o].submittedAt <= lastEvent
        BY DEF LedgerIsKnown
      <4>3. ASSUME NEW o \in Orders, order[o].submittedAt <= lastEvent
            PROVE  order[o].submittedAt <= lastEvent'
        BY <1>2, <3>1, <3>3, <4>3
      <4>4. QED BY <4>1, <4>2, <4>3
    <3>6. lastEvent' <= clock \/ \E g \in Processed' \cup inflight' : lastEvent' <= g.at
      BY <1>2, <1>5, <3>3
    <3>7. QED BY <2>2, <3>4, <3>5, <3>6 DEF LedgerIsKnown
  <2>4. CASE UNCHANGED <<order, reserved, lastEvent, lastQuote>>
    BY <1>5, <2>2, <2>4 DEF LedgerIsKnown
  <2>5. QED BY <2>1, <2>3, <2>4, AdmissionControl
<1>8. CASE \E f \in inflight : Service(f)
  <2>1. PICK f \in inflight : Service(f)
    BY <1>8
  <2>2. f \in Facts /\ f.at \in Int /\ clock <= f.at /\ lastEvent <= f.at
    BY <2>1, InFlight
  <2>3. inflight' = inflight
    BY <2>1, ServiceControl
  <2>4. LedgerShape(f)
    BY <2>1, <2>2, ServiceMoves
  <2>5. lastEvent' \in {lastEvent, f.at} /\ clock' \in {clock, f.at} /\ lastEvent <= lastEvent'
    BY <1>2, <2>2, <2>4 DEF LedgerShape
  <2>6. lastQuote' <= lastEvent'
    BY <1>2, <2>2, <2>4, <2>5 DEF LedgerShape, LedgerIsKnown
  <2>7. \A o \in Orders : order'[o].status # "NONE" => order'[o].submittedAt <= lastEvent'
    <3>1. ASSUME NEW o \in Orders, order'[o].status # "NONE"
          PROVE  \/ order'[o].submittedAt = order[o].submittedAt /\ order[o].status # "NONE"
                 \/ order'[o].submittedAt = lastEvent'
      <4>1. Moves(o, f)
        BY <2>4 DEF LedgerShape
      <4>2. CASE order'[o] = [status |-> "PENDING", submittedAt |-> f.at] /\ lastEvent' = f.at
        BY <4>2
      <4>3. QED BY <3>1, <4>1, <4>2 DEF Moves
    <3>2. ASSUME NEW o \in Orders, order[o].status # "NONE"
          PROVE  order[o].submittedAt <= lastEvent'
      <4>1. order[o].submittedAt <= lastEvent
        BY <3>2 DEF LedgerIsKnown
      <4>2. QED BY <1>2, <2>2, <2>5, <4>1
    <3>3. lastEvent' <= lastEvent'
      BY <1>2, <2>2, <2>5
    <3>4. QED BY <3>1, <3>2, <3>3
  <2>8. lastEvent' <= clock' \/ \E g \in Processed' \cup inflight' : lastEvent' <= g.at
    <3>1. CASE lastEvent' = f.at
      <4>1. lastEvent' <= f.at
        BY <2>2, <3>1
      <4>2. QED BY <2>1, <2>3, <4>1
    <3>2. CASE lastEvent' = lastEvent
      BY <1>2, <1>5, <2>2, <2>5, <3>2
    <3>3. QED BY <2>5, <3>1, <3>2
  <2>9. QED BY <2>6, <2>7, <2>8 DEF LedgerIsKnown
<1>9. QED BY <1>6, <1>7, <1>8, Footprints

\* Orders leave PENDING together with their reservation.
LEMMA ReservedStaysPending ==
  ASSUME TypeOK, ReservedIsPending, Next
  PROVE  ReservedIsPending'
<1>1. CASE UNCHANGED <<clock, order, reserved, lastEvent, lastQuote>>
  BY <1>1 DEF ReservedIsPending
<1>2. CASE \E f \in batch : Admit(f)
  <2>1. PICK f \in batch : Admit(f)
    BY <1>2
  <2>2. f \in Facts /\ reserved \subseteq Orders
    BY DEF TypeOK
  <2>3. CASE Reconcile(f)
    BY <2>2, <2>3, ReconcileMoves DEF ReservedIsPending
  <2>4. CASE UNCHANGED <<order, reserved, lastEvent, lastQuote>>
    BY <2>4 DEF ReservedIsPending
  <2>5. QED BY <2>1, <2>3, <2>4, AdmissionControl
<1>3. CASE \E f \in inflight : Service(f)
  <2>1. PICK f \in inflight : Service(f)
    BY <1>3
  <2>2. f \in Facts
    BY DEF TypeOK
  <2>3. QED BY <2>1, <2>2, ServiceMoves DEF LedgerShape
<1>4. QED BY <1>1, <1>2, <1>3, Footprints

\* Settlement completes a resolved run and the service refuses its signals.
LEMMA CompletedStaysResolved ==
  ASSUME TypeOK, ReservedIsPending, CompletedRunIsResolved, Next
  PROVE  CompletedRunIsResolved'
<1>1. reserved \subseteq Orders
  BY DEF TypeOK
<1>2. ReservedIsPending' /\ reserved' \subseteq Orders
  BY ReservedStaysPending, LedgerStaysTyped DEF LedgerTyped
<1>3. SUFFICES ASSUME run' = "COMPLETED", NEW o \in Orders
               PROVE  order'[o].status \notin Live
  BY <1>2 DEF CompletedRunIsResolved, ReservedIsPending, Live
<1>4. CASE Settle
  <2>1. order' = order /\ ~Unresolved
    BY <1>3, <1>4 DEF Settle, ledger
  <2>2. QED BY <2>1 DEF Unresolved
<1>5. CASE run' = run
  <2>1. order[o].status \notin Live
    BY <1>3, <1>5 DEF CompletedRunIsResolved
  <2>2. CASE UNCHANGED <<clock, order, reserved, lastEvent, lastQuote>>
    BY <2>1, <2>2
  <2>3. CASE \E f \in batch : Admit(f)
    <3>1. PICK f \in batch : Admit(f)
      BY <2>3
    <3>2. f \in Facts
      BY DEF TypeOK
    <3>3. CASE Reconcile(f)
      BY <2>1, <3>2, <3>3, ReconcileMoves DEF Live
    <3>4. CASE UNCHANGED <<order, reserved, lastEvent, lastQuote>>
      BY <2>1, <3>4
    <3>5. QED BY <3>1, <3>3, <3>4, AdmissionControl
  <2>4. CASE \E f \in inflight : Service(f)
    <3>1. PICK f \in inflight : Service(f)
      BY <2>4
    <3>2. f \in Facts
      BY DEF TypeOK
    <3>3. Moves(o, f)
      BY <3>1, <3>2, ServiceMoves DEF LedgerShape
    <3>4. QED BY <1>3, <1>5, <2>1, <3>3 DEF Moves, Live
  <2>5. QED BY <2>2, <2>3, <2>4, Footprints
<1>6. QED BY <1>4, <1>5, Footprints

\* A cycle after the close builds no signal, and settlement waits for those
\* of the inbox.
LEMMA SignalsStayInTime ==
  ASSUME TypeOK, KnownByNow, HeldIsPending, SignalsInTime, Next
  PROVE  SignalsInTime'
<1>1. InboxMoves
  BY InboxMoving
<1>2. now \in Int /\ now' \in Int /\ now <= now' /\ Close \in Int
  BY WorldStaysTyped, TimeAssumption DEF WorldTyped, TypeOK
<1>3. Inbox' \subseteq Inbox \cup batch /\ Pending' \subseteq Pending \cup batch
  BY <1>1 DEF InboxMoves, Pending
<1>4. \A f \in batch' : f.type = "SIGNAL" => f.at < Close /\ (f \in batch \/ now < Close)
  <2>1. CASE UNCHANGED batch
    BY <2>1 DEF SignalsInTime
  <2>2. CASE Cycle
    BY <2>2, CycleBuilds
  <2>3. CASE \E f \in batch : Admit(f)
    BY <2>3, AdmissionControl DEF SignalsInTime
  <2>4. QED BY <2>1, <2>2, <2>3, Footprints
<1>5. \A f \in Inbox' \cup batch' : f.type = "SIGNAL" => f.at < Close
  BY <1>3, <1>4 DEF SignalsInTime
<1>6. ASSUME run' = "COMPLETED"
      PROVE  now' >= Close /\ \A f \in Pending' \cup batch' : f.type # "SIGNAL"
  <2>1. CASE run' = run
    <3>1. now >= Close /\ \A f \in Pending \cup batch : f.type # "SIGNAL"
      BY <1>6, <2>1 DEF SignalsInTime
    <3>2. now' >= Close
      BY <1>2, <3>1
    <3>3. ~(now < Close)
      BY <1>2, <3>1
    <3>4. QED BY <1>3, <1>4, <3>1, <3>2, <3>3
  <2>2. CASE Settle
    <3>1. ~Unresolved /\ now >= Close /\ phase # "enqueue"
          /\ UNCHANGED <<now, outcome, batch>>
      BY <1>6, <2>2 DEF Settle, world
    <3>2. Pending' = {} /\ batch' = {}
      BY <3>1 DEF Unresolved, Pending, Inbox, HeldIsPending
    <3>3. QED BY <3>1, <3>2
  <2>3. QED BY <2>1, <2>2, Footprints
<1>7. QED BY <1>5, <1>6 DEF SignalsInTime

\* An order born of its signal was refused by no fact of the inbox.
LEMMA BornUnrefused ==
  ASSUME TypeOK, HeldIsPending, Refusals, NEW f \in inflight, Service(f),
         f.type = "SIGNAL", order[f.order].status = "NONE"
  PROVE  ~PreCancelled(f.order)
<1>1. f \in Pending
  BY ServiceControl DEF HeldIsPending
<1>2. f \in SignalsOf(f.order)
  BY <1>1 DEF SignalsOf, Pending
<1>3. QED BY <1>1, <1>2 DEF Refusals, PreCancelled

\* A refusal answers the signal that waits, or finds its order and cancels it,
\* and no cycle builds another signal.
LEMMA RefusalsStay ==
  ASSUME TypeOK, KnownByNow, HeldIsPending, Refusals, Next
  PROVE  Refusals'
<1>1. InboxMoves
  BY InboxMoving
<1>2. Inbox \cup batch \subseteq Facts
  BY DEF TypeOK
<1>3. \A f \in batch', g \in Inbox' \cup batch' :
        f.type = "SIGNAL" /\ g.type = "CANCEL" /\ g.pre => f.order # g.order
  <2>1. CASE UNCHANGED batch
    BY <1>1, <2>1 DEF Refusals, InboxMoves
  <2>2. CASE Cycle
    <3>1. Inbox' = Inbox
      BY <2>2 DEF Cycle, Inbox
    <3>2. \A f \in batch' : f.type = "SIGNAL" => ~PreCancelled(f.order)
      BY <2>2, CycleBuilds
    <3>3. \A f, g \in batch' :
            f.type = "SIGNAL" /\ g.type = "CANCEL" /\ g.pre => f.order # g.order
      BY <2>2, CycleBuilds
    <3>4. QED BY <3>1, <3>2, <3>3 DEF PreCancelled
  <2>3. CASE \E f \in batch : Admit(f)
    <3>1. batch' \subseteq batch
      BY <2>3, AdmissionControl
    <3>2. QED BY <1>1, <3>1 DEF Refusals, InboxMoves
  <2>4. QED BY <2>1, <2>2, <2>3, Footprints
<1>4. ASSUME NEW f \in Inbox', f.type = "CANCEL", f.pre
      PROVE  /\ order'[f.order].status # "PENDING"
             /\ order'[f.order].status = "NONE" => SignalsOf(f.order)' \cap Pending' = {}
  <2>1. f.order \in Orders /\ f \in Facts
    BY <1>1, <1>2, <1>4, FactFields DEF IsFact, InboxMoves
  <2>2. CASE f \in Inbox
    <3>1. /\ order[f.order].status # "PENDING"
          /\ order[f.order].status = "NONE" => SignalsOf(f.order) \cap Pending = {}
      BY <1>4, <2>2 DEF Refusals
    <3>2. /\ order'[f.order].status # "PENDING"
          /\ order'[f.order].status = "NONE" => order[f.order].status = "NONE"
      <4>1. CASE UNCHANGED <<clock, order, reserved, lastEvent, lastQuote>>
        BY <3>1, <4>1
      <4>2. CASE \E g \in batch : Admit(g)
        <5>1. PICK g \in batch : Admit(g)
          BY <4>2
        <5>2. g \in Facts
          BY <1>2
        <5>3. CASE Reconcile(g)
          BY <2>1, <3>1, <5>2, <5>3, ReconcileMoves
        <5>4. CASE UNCHANGED <<order, reserved, lastEvent, lastQuote>>
          BY <3>1, <5>4
        <5>5. QED BY <5>1, <5>3, <5>4, AdmissionControl
      <4>3. CASE \E g \in inflight : Service(g)
        <5>1. PICK g \in inflight : Service(g)
          BY <4>3
        <5>2. g \in Facts
          BY <1>2 DEF TypeOK
        <5>3. Moves(f.order, g)
          BY <2>1, <5>1, <5>2, ServiceMoves DEF LedgerShape
        <5>4. PreCancelled(f.order)
          BY <1>4, <2>2 DEF PreCancelled
        <5>5. ~(g.type = "SIGNAL" /\ g.order = f.order /\ order[f.order].status = "NONE")
          BY <5>1, <5>4, BornUnrefused
        <5>6. QED BY <3>1, <5>3, <5>5 DEF Moves
      <4>4. QED BY <4>1, <4>2, <4>3, Footprints
    <3>3. ASSUME order'[f.order].status = "NONE", NEW g \in SignalsOf(f.order)', g \in Pending'
          PROVE  FALSE
      <4>1. g.type = "SIGNAL" /\ g.order = f.order /\ g \in Inbox'
        BY <3>3 DEF SignalsOf
      <4>2. CASE g \in Inbox
        <5>1. g \in Pending /\ g \in SignalsOf(f.order)
          BY <1>1, <3>3, <4>1, <4>2 DEF InboxMoves, SignalsOf
        <5>2. QED BY <3>1, <3>2, <3>3, <5>1
      <4>3. CASE g \notin Inbox
        <5>1. g \in batch
          BY <1>1, <4>1, <4>3 DEF InboxMoves
        <5>2. QED BY <1>4, <2>2, <4>1, <5>1 DEF Refusals
      <4>4. QED BY <4>2, <4>3
    <3>4. QED BY <3>2, <3>3
  <2>3. CASE f \notin Inbox
    <3>1. PICK g \in batch : Admit(g)
      BY <1>4, <2>3, Footprints, AcknowledgeAnswers DEF Inbox
    <3>2. Admitted(g) /\ g \in Facts
      BY <1>2, <3>1, AdmissionAdmits
    <3>3. g = f
      BY <1>4, <2>3, <3>2 DEF Admitted
    <3>4. order'[f.order].status = "NONE" => SignalsOf(f.order)' \cap Pending' = {}
      BY <1>4, <2>3, <3>2, <3>3 DEF Admitted
    <3>5. ~AlreadyKnown(f)
      BY <1>4, <2>3, <3>1, <3>3 DEF Admit, Inbox
    <3>6. Insert(f) \/ Suppress(f) \/ Reconcile(f) \/ InsertSettled(f)
      BY <3>1, <3>3, <3>5 DEF Admit
    <3>7. order'[f.order].status # "PENDING"
      <4>1. CASE Insert(f)
        BY <1>4, <4>1 DEF Insert
      <4>2. CASE Suppress(f)
        BY <4>2 DEF Suppress, ledger
      <4>3. CASE Reconcile(f)
        BY <2>1, <4>3, ReconcileMoves
      <4>4. CASE InsertSettled(f)
        BY <4>4 DEF InsertSettled, ledger
      <4>5. QED BY <3>6, <4>1, <4>2, <4>3, <4>4
    <3>8. QED BY <3>4, <3>7
  <2>4. QED BY <2>2, <2>3
<1>5. QED BY <1>3, <1>4 DEF Refusals

\* A run starts in the invariant.
LEMMA InitEstablishes == Init => IInv
<1> SUFFICES ASSUME Init PROVE IInv
  OBVIOUS
<1>1. TypeOK
  BY InitTyped
<1>2. Inbox = {} /\ Pending = {} /\ Processed = {}
  BY DEF Init, Inbox, Pending, Processed
<1>3. KnownByNow /\ HeldIsPending /\ BarrierIsFirst /\ PendingIsAhead
  BY <1>2 DEF Init, KnownByNow, HeldIsPending, BarrierIsFirst, PendingIsAhead
<1>4. LedgerIsKnown /\ ReservedIsPending /\ CompletedRunIsResolved
  BY DEF Init, LedgerIsKnown, ReservedIsPending, CompletedRunIsResolved
<1>5. SignalsInTime /\ Refusals
  BY <1>2 DEF Init, SignalsInTime, Refusals
<1>6. QED BY <1>1, <1>3, <1>4, <1>5 DEF IInv

\* Every action keeps it.
LEMMA NextPreserves == IInv /\ Next => IInv'
<1> SUFFICES ASSUME IInv, Next PROVE IInv'
  OBVIOUS
<1>0. /\ TypeOK /\ KnownByNow /\ HeldIsPending /\ BarrierIsFirst
      /\ PendingIsAhead /\ LedgerIsKnown /\ ReservedIsPending /\ CompletedRunIsResolved
      /\ SignalsInTime /\ Refusals
  BY DEF IInv
<1>1. InboxTyped' /\ LedgerTyped' /\ WorldTyped' /\ ControlTyped' /\ KnownByNow'
  BY <1>0, InboxStaysTyped, LedgerStaysTyped, WorldStaysTyped, ControlStaysTyped
<1>2. TypeOK'
  BY <1>1 DEF TypeOK, InboxTyped, LedgerTyped, WorldTyped, ControlTyped, OrderType, Statuses
<1>3. HeldIsPending' /\ BarrierIsFirst'
  BY <1>0, HeldStaysPending, BarrierStaysFirst
<1>4. PendingIsAhead' /\ LedgerIsKnown'
  BY <1>0, PendingStaysAhead, LedgerStaysKnown
<1>5. ReservedIsPending' /\ CompletedRunIsResolved'
  BY <1>0, ReservedStaysPending, CompletedStaysResolved
<1>6. SignalsInTime' /\ Refusals'
  BY <1>0, SignalsStayInTime, RefusalsStay
<1>7. QED BY <1>1, <1>2, <1>3, <1>4, <1>5, <1>6 DEF IInv

\* So does a step that changes nothing.
LEMMA StutterPreserves == IInv /\ UNCHANGED vars => IInv'
<1> SUFFICES ASSUME IInv, UNCHANGED vars PROVE IInv'
  OBVIOUS
<1>1. /\ UNCHANGED <<now, observed, invalidated, outcome, clock, inflight>>
      /\ UNCHANGED <<order, reserved, lastEvent, lastQuote>>
      /\ UNCHANGED <<run, phase, batch, result, crashes>>
  BY DEF vars, world, barrier, ledger
<1>2. Inbox' = Inbox /\ Pending' = Pending /\ Processed' = Processed
  BY <1>1 DEF Inbox, Pending, Processed
<1>3. TypeOK' /\ KnownByNow'
  BY <1>1, <1>2 DEF IInv, TypeOK, KnownByNow
<1>4. HeldIsPending' /\ BarrierIsFirst' /\ PendingIsAhead'
  BY <1>1, <1>2 DEF IInv, HeldIsPending, BarrierIsFirst, First, PendingIsAhead
<1>5. LedgerIsKnown' /\ ReservedIsPending' /\ CompletedRunIsResolved'
  BY <1>1, <1>2 DEF IInv, LedgerIsKnown, ReservedIsPending, CompletedRunIsResolved
<1>6. SignalsInTime' /\ Refusals'
  BY <1>1, <1>2 DEF IInv, SignalsInTime, Refusals, SignalsOf
<1>7. QED BY <1>3, <1>4, <1>5, <1>6 DEF IInv

\* The invariant holds: the argument behind the theorems that follow.
THEOREM Inductive == Spec => []IInv
<1>1. Init => IInv
  BY InitEstablishes
<1>2. IInv /\ [Next]_vars => IInv'
  BY NextPreserves, StutterPreserves
<1>3. QED BY <1>1, <1>2, PTL DEF Spec

\* The state of the inbox, the orders and the ledger is always well formed.
THEOREM InboxIsTyped == Spec => []TypeOK
<1>1. IInv => TypeOK
  BY DEF IInv
<1>2. QED BY <1>1, Inductive, PTL

\* After any death of the process and whatever was enqueued since, claimNextFact
\* finds the fact in flight to be the first that waits.
THEOREM RetryTakesTheSameFact == Spec => []BarrierIsFirst
<1>1. IInv => BarrierIsFirst
  BY DEF IInv
<1>2. QED BY <1>1, Inductive, PTL

\* settleRunAfterClose never completes a run with a live order or a reservation,
\* and none appears later.
THEOREM BooksCloseResolved == Spec => []CompletedRunIsResolved
<1>1. IInv => CompletedRunIsResolved
  BY DEF IInv
<1>2. QED BY <1>1, Inductive, PTL

\* In the invariant no check of a date refuses the fact in flight.
LEMMA AdmittedIsAccepted == IInv => OnlyUnknownOrdersStop
<1> SUFFICES ASSUME IInv, phase = "claimed", NEW f \in inflight, Throws(f)
             PROVE  UnknownOrder(f)
  BY DEF OnlyUnknownOrdersStop
<1>1. f \in Pending /\ TypeOK /\ f \in Facts
  BY DEF IInv, HeldIsPending, TypeOK
<1>2. /\ clock \in Int /\ lastEvent \in Int /\ lastQuote \in Int
      /\ \A o \in Orders : order[o].submittedAt \in Int
      /\ f.at \in Int
  BY <1>1, ClocksAreNumbers DEF Pending
<1>3. clock <= f.at /\ lastEvent <= f.at
  BY <1>1 DEF IInv, PendingIsAhead
<1>4. ~OutOfOrder(f)
  BY <1>2, <1>3 DEF OutOfOrder
<1>5. ~(f.type = "QUOTE" /\ f.at < lastQuote)
  BY <1>2, <1>3 DEF IInv, LedgerIsKnown
<1>6. ASSUME f.type = "CANCEL", PendingOrder(f.order)
      PROVE  ~(f.at < order[f.order].submittedAt)
  <2>1. f.order \in Orders
    BY <1>1, <1>6, FactFields DEF IsFact
  <2>2. order[f.order].submittedAt <= lastEvent
    BY <1>6, <2>1 DEF IInv, LedgerIsKnown, PendingOrder
  <2>3. QED BY <1>2, <1>3, <2>1, <2>2
<1>7. ~(f.type = "SIGNAL" /\ (f.at >= Close \/ run = "COMPLETED"))
  <2>1. f \in Inbox
    BY <1>1 DEF Pending
  <2>2. f.type = "SIGNAL" => f.at < Close /\ run # "COMPLETED"
    BY <1>1, <2>1 DEF IInv, SignalsInTime
  <2>3. QED BY <1>2, <2>2, TimeAssumption
<1>8. QED BY <1>4, <1>5, <1>6, <1>7 DEF Throws

\* A fact stored unanswered is never refused for its date by the service, the
\* orders or the ledger: only a cancellation of an order that never was stops.
THEOREM FactsComeInOrder == Spec => []OnlyUnknownOrdersStop
<1>1. QED BY AdmittedIsAccepted, Inductive, PTL

\* A step that makes an order live finds no refusal of it.
LEMMA RefusedStaysOut ==
  ASSUME IInv, [Next]_vars, NEW o \in Orders,
         order[o].status # order'[o].status, order'[o].status \in Live
  PROVE  \A f \in CancelsOf(o) : ~f.pre
<1>1. TypeOK /\ HeldIsPending /\ Refusals
  BY DEF IInv
<1>2. Next
  BY DEF vars, ledger
<1>3. SUFFICES ~PreCancelled(o)
  BY DEF PreCancelled, CancelsOf
<1>4. CASE \E f \in batch : Admit(f)
  <2>1. PICK f \in batch : Admit(f)
    BY <1>4
  <2>2. f \in Facts
    BY <1>1 DEF TypeOK
  <2>3. CASE Reconcile(f)
    BY <1>1, <2>2, <2>3, ReconcileMoves DEF Live
  <2>4. QED BY <2>1, <2>3, AdmissionControl
<1>5. CASE \E f \in inflight : Service(f)
  <2>1. PICK f \in inflight : Service(f)
    BY <1>5
  <2>2. f \in Facts
    BY <1>1 DEF TypeOK
  <2>3. Moves(o, f)
    BY <1>1, <2>1, <2>2, ServiceMoves DEF LedgerShape
  <2>4. CASE order[o].status = "PENDING"
    BY <1>1, <2>4 DEF Refusals, PreCancelled
  <2>5. CASE f.type = "SIGNAL" /\ f.order = o /\ order[o].status = "NONE"
    BY <1>1, <2>1, <2>5, BornUnrefused
  <2>6. QED BY <2>3, <2>4, <2>5 DEF Moves, Live
<1>6. QED BY <1>2, <1>4, <1>5, Footprints

\* A signal whose invalidation refused its submission is never submitted and
\* its order never filled.
THEOREM RefusedSignalsNeverTrade == Spec => InvalidatedNeverTrade
<1>1. IInv /\ [Next]_vars =>
        [\A o \in Orders :
           order[o].status # order'[o].status /\ order'[o].status \in Live
             => \A f \in CancelsOf(o) : ~f.pre]_vars
  BY RefusedStaysOut
<1>2. QED BY <1>1, Inductive, PTL DEF Spec, InvalidatedNeverTrade

\* acknowledge answers a fact once: no enqueue, suppression, reconciliation or
\* drain after a crash takes the answer back or writes another.
THEOREM AnswersStand == Spec => [][AnswersKept]_vars
<1>1. IInv /\ [Next]_vars => [AnswersKept]_vars
  BY InboxMoving DEF IInv, InboxMoves
<1>2. QED BY <1>1, Inductive, PTL DEF Spec

----------------------------------------------------------------------------
(* The promise of OrderLife *)

\* The stage of an order by the status of its row.
LEMMA StagesByStatus ==
  /\ StageOf("NONE") = "none" /\ StageOf("PENDING") = "reserved"
  /\ StageOf("CANCELLED") = "released" /\ StageOf("FILLED") = "owned"
  /\ StageOf("CLOSED") = "sold"
BY DEF StageOf

\* One order: a row that moves as the service and the reconciliation move it,
\* with its reservation, takes a step of its life.
LEMMA OrderLives ==
  ASSUME NEW o \in Orders, ReservedIsPending, ReservedIsPending',
         \/ order'[o].status = order[o].status
         \/ order[o].status = "NONE" /\ order'[o].status = "PENDING"
         \/ order[o].status = "PENDING" /\ order'[o].status \in {"FILLED", "CANCELLED"}
         \/ order[o].status = "FILLED" /\ order'[o].status = "CLOSED"
  PROVE  Life!OrderStep(o) \/ Life!Rest(o)
<1>1. /\ stageOf[o] = StageOf(order[o].status)
      /\ stageOf'[o] = StageOf(order'[o].status)
  BY DEF stageOf
<1>2. /\ o \in reserved <=> order[o].status = "PENDING"
      /\ o \in reserved' <=> order'[o].status = "PENDING"
  BY DEF ReservedIsPending
<1> HIDE DEF stageOf
<1>3. CASE order'[o].status = order[o].status
  BY <1>1, <1>2, <1>3 DEF Life!Rest
<1>4. CASE order[o].status = "NONE" /\ order'[o].status = "PENDING"
  BY <1>1, <1>2, <1>4, StagesByStatus DEF Life!OrderStep, Life!Reserve
<1>5. CASE order[o].status = "PENDING" /\ order'[o].status = "CANCELLED"
  BY <1>1, <1>2, <1>5, StagesByStatus DEF Life!OrderStep, Life!Release
<1>6. CASE order[o].status = "PENDING" /\ order'[o].status = "FILLED"
  BY <1>1, <1>2, <1>6, StagesByStatus DEF Life!OrderStep, Life!Buy
<1>7. CASE order[o].status = "FILLED" /\ order'[o].status = "CLOSED"
  BY <1>1, <1>2, <1>7, StagesByStatus DEF Life!OrderStep, Life!SellOut
<1>8. QED BY <1>3, <1>4, <1>5, <1>6, <1>7

\* How a step may move the row of an order, and that it never dates the ledger
\* back: the service applies the first fact, which is ahead of the ledger, and a
\* reconciliation takes the latest instant it knows.
LEMMA RowsMove ==
  ASSUME IInv, Next
  PROVE  /\ lastEvent <= lastEvent'
         /\ \A o \in Orders :
              \/ order'[o].status = order[o].status
              \/ order[o].status = "NONE" /\ order'[o].status = "PENDING"
              \/ order[o].status = "PENDING" /\ order'[o].status \in {"FILLED", "CANCELLED"}
              \/ order[o].status = "FILLED" /\ order'[o].status = "CLOSED"
<1>1. TypeOK /\ HeldIsPending /\ BarrierIsFirst /\ PendingIsAhead
  BY DEF IInv
<1>2. lastEvent \in Int
  BY <1>1, ClocksAreNumbers
<1>3. CASE UNCHANGED <<clock, order, reserved, lastEvent, lastQuote>>
  BY <1>2, <1>3
<1>4. CASE \E f \in batch : Admit(f)
  <2>1. PICK f \in batch : Admit(f)
    BY <1>4
  <2>2. f \in Facts
    BY <1>1 DEF TypeOK
  <2>3. CASE Reconcile(f)
    BY <1>1, <2>2, <2>3, ReconcileMoves
  <2>4. CASE UNCHANGED <<order, reserved, lastEvent, lastQuote>>
    BY <1>2, <2>4
  <2>5. QED BY <2>1, <2>3, <2>4, AdmissionControl
<1>5. CASE \E f \in inflight : Service(f)
  <2>1. PICK f \in inflight : Service(f)
    BY <1>5
  <2>2. f \in Facts /\ lastEvent <= f.at
    BY <1>1, <2>1, InFlight
  <2>3. lastEvent' \in {lastEvent, f.at} /\ \A o \in Orders : Moves(o, f)
    BY <1>1, <2>1, <2>2, ServiceMoves DEF LedgerShape
  <2>4. ASSUME NEW o \in Orders
        PROVE  \/ order'[o].status = order[o].status
               \/ order[o].status = "NONE" /\ order'[o].status = "PENDING"
               \/ order[o].status = "PENDING" /\ order'[o].status \in {"FILLED", "CANCELLED"}
               \/ order[o].status = "FILLED" /\ order'[o].status = "CLOSED"
    BY <2>3 DEF Moves
  <2>5. QED BY <1>2, <2>2, <2>3, <2>4
<1>6. QED BY <1>3, <1>4, <1>5, Footprints

\* A step of the inbox is a step of its orders' lives, or none.
LEMMA LifeStep ==
  ASSUME IInv, [Next]_vars
  PROVE  [Life!Next]_(Life!lifeVars)
<1>1. CASE UNCHANGED vars
  <2>1. UNCHANGED <<order, reserved, lastEvent>>
    BY <1>1 DEF vars, ledger
  <2>2. stageOf' = stageOf
    BY <2>1 DEF stageOf
  <2>3. QED BY <2>1, <2>2 DEF Life!lifeVars
<1>2. CASE Next
  <2>1. IInv'
    BY <1>2, NextPreserves
  <2>2. ReservedIsPending /\ ReservedIsPending' /\ TypeOK'
    BY <2>1 DEF IInv
  <2>3. \A o \in Orders : Life!OrderStep(o) \/ Life!Rest(o)
    BY <1>2, <2>2, RowsMove, OrderLives
  <2>4. stageOf' \in [Orders -> Life!Stages]
    <3>1. ASSUME NEW o \in Orders PROVE StageOf(order'[o].status) \in Life!Stages
      <4>1. order'[o].status \in Statuses
        BY <2>2, OrderFields DEF TypeOK, Statuses
      <4>2. QED BY <4>1, StagesByStatus DEF Statuses, Life!Stages
    <3>2. QED BY <3>1 DEF stageOf
  <2>5. reserved' \subseteq Orders /\ lastEvent' >= lastEvent
    <3>1. lastEvent \in Int /\ lastEvent' \in Int /\ reserved' \subseteq Orders
      BY <2>2, ClocksAreNumbers DEF IInv, TypeOK, Instants
    <3>2. QED BY <1>2, <3>1, RowsMove
  <2>6. QED BY <2>3, <2>4, <2>5 DEF Life!Next
<1>3. QED BY <1>1, <1>2

\* Behind facts, retries, reconciliations and crashes, each order keeps the
\* promise of OrderLife: its row and its reservation move together, and the
\* ledger is never asked to go back in time.
THEOREM OrdersLive == Spec => ImplementsOrderLife
<1>1. Init => Life!Init
  <2>1. ASSUME Init PROVE stageOf = [o \in Orders |-> "none"]
    BY <2>1, StagesByStatus DEF Init, stageOf
  <2>2. QED BY <2>1 DEF Init, Life!Init
<1>2. IInv /\ [Next]_vars => [Life!Next]_(Life!lifeVars)
  BY LifeStep
<1>3. QED BY <1>1, <1>2, Inductive, PTL DEF Spec, ImplementsOrderLife, Life!Spec

=============================================================================
