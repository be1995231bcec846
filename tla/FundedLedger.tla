---------------------------- MODULE FundedLedger ----------------------------
(* The ledger of one funded paper account: funded-ledger.ts decides and    *)
(* applies an event, funded-ledger-repository.ts applies each durable id   *)
(* once, under the lock of the account's row. Every action is one event.   *)
(*                                                                         *)
(* Amounts count units of 0.0001, the precision of money(); the prices and *)
(* fees of the order service are whole units. A position has the id of its *)
(* order, as the order service gives it; none is a position of no shares,  *)
(* and no reservation is one of nothing: RESERVE refuses amounts of zero.  *)
EXTENDS Integers, FiniteSetsExt

CONSTANTS
  MaxOrder,        \* the orders are 1..MaxOrder
  InstrumentOf,    \* the instrument each order trades
  StartingCash,
  DailyLossLimit,
  MaxMarkAge,
  MaxTime,         \* bound: the latest event
  MaxSession,      \* bound: the last session
  Debits, Risks, Shares, Prices, Fees  \* bound: the amounts of the events

Orders == 1..MaxOrder

ASSUME AccountAssumption ==
  /\ MaxOrder \in Nat /\ MaxMarkAge \in Nat /\ MaxTime \in Nat /\ MaxSession \in Nat \ {0}
  /\ StartingCash \in Nat \ {0} /\ DailyLossLimit \in Nat \ {0}
ASSUME EventsAssumption ==
  /\ Debits \subseteq Nat \ {0} /\ Risks \subseteq Nat \ {0}
  /\ Shares \subseteq Nat \ {0} /\ Prices \subseteq Nat \ {0} /\ Fees \subseteq Nat

VARIABLES
  cash, openingEquity, realizedPnl,
  session,       \* sessions are numbered
  positions,     \* [shares, basis, stop, mark, markedAt] of each order
  reservations,  \* [debit, risk] of each order
  lastEventAt,
  durable,       \* paper_funded_event without its marks: the applied events
  carriedPnl,    \* ghost: realizedPnl of the earlier sessions
  losses         \* ghost: what entries could not foresee, of risk and of cash

vars == <<cash, openingEquity, realizedPnl, session, positions, reservations,
          lastEventAt, durable, carriedPnl, losses>>

NoPosition    == [shares |-> 0, basis |-> 0, stop |-> 0, mark |-> 0, markedAt |-> 0]
NoReservation == [debit |-> 0, risk |-> 0]

Owned    == {o \in Orders : positions[o].shares > 0}
Reserved == {o \in Orders : reservations[o] # NoReservation}

(* ------------------------------ The summary ------------------------------ *)

\* The sum of a function over the orders.
Total(f) ==
  LET sum[n \in 0..MaxOrder] == IF n = 0 THEN 0 ELSE sum[n - 1] + f[n]
  IN sum[MaxOrder]

Positive(x)   == IF x > 0 THEN x ELSE 0

marketValue  == Total([o \in Orders |-> positions[o].shares * positions[o].mark])
basis        == Total([o \in Orders |-> positions[o].basis])
reservedCash == Total([o \in Orders |-> reservations[o].debit])
reservedRisk == Total([o \in Orders |-> reservations[o].risk])
openRisk ==
  Total([o \in Orders |->
           Positive(positions[o].mark - positions[o].stop) * positions[o].shares])

equity   == cash + marketValue
dailyPnl == equity - openingEquity

staleMarks(at) == \E o \in Owned : at - positions[o].markedAt > MaxMarkAge

\* Mutant: the risk of the other reservations is left out.
riskCapacityOfPositions == DailyLossLimit - Positive(-dailyPnl) - openRisk

\* What the daily limit leaves, before it is cut off at zero.
riskCapacity == DailyLossLimit - Positive(-dailyPnl) - openRisk - reservedRisk

remainingDailyRisk == Positive(riskCapacity)

buyingPower == Positive(cash - reservedCash)

entriesAllowed(at) == ~staleMarks(at) /\ dailyPnl > -DailyLossLimit

(* ------------------------------- The events ------------------------------- *)

Init ==
  /\ cash = StartingCash /\ openingEquity = StartingCash /\ realizedPnl = 0
  /\ session = 1
  /\ positions = [o \in Orders |-> NoPosition]
  /\ reservations = [o \in Orders |-> NoReservation]
  /\ lastEventAt = 0
  /\ durable = {} /\ carriedPnl = 0
  /\ losses = [risk |-> 0, cash |-> 0]

\* The ids of the order service: reserve:, release: and buy: an order, sell:
\* an order at an instant.
SameId(d, e) ==
  d.type = e.type /\ d.order = e.order /\ (e.type = "SELL" => d.at = e.at)

\* Mutant: the ids are looked up in the compacted snapshot, which has none.
FreshBySnapshot(e) == TRUE

\* An id that was applied is skipped, or refused when its content differs,
\* whatever the snapshot has dropped of its history.
Fresh(e) == \A d \in durable : ~SameId(d, e)

InOrder(at) == at \in lastEventAt..MaxTime

\* What is left of the positions if each is sold at its stop.
stopValue(ps) == Total([o \in Orders |-> ps[o].shares * ps[o].stop])

Reserve(o, debit, risk, at) ==
  LET event == [type |-> "RESERVE", order |-> o, at |-> at, debit |-> debit, risk |-> risk] IN
  /\ Fresh(event) /\ InOrder(at)
  /\ o \notin Reserved
  /\ entriesAllowed(at) /\ debit <= buyingPower /\ risk <= remainingDailyRisk
  /\ reservations' = [reservations EXCEPT ![o] = [debit |-> debit, risk |-> risk]]
  /\ lastEventAt' = at /\ durable' = durable \cup {event}
  /\ UNCHANGED <<cash, openingEquity, realizedPnl, session, positions, carriedPnl, losses>>

\* The order service releases what it had reserved.
Release(o, at) ==
  LET event == [type |-> "RELEASE", order |-> o, at |-> at] IN
  /\ Fresh(event) /\ InOrder(at)
  /\ o \in Reserved
  /\ reservations' = [reservations EXCEPT ![o] = NoReservation]
  /\ lastEventAt' = at /\ durable' = durable \cup {event}
  /\ UNCHANGED <<cash, openingEquity, realizedPnl, session, positions, carriedPnl, losses>>

\* Mutant: the fill may be dearer than its reservation while the cash lasts.
FitsCashAlone(o, debit, risk) == debit <= cash /\ risk <= reservations[o].risk

FitsReservation(o, debit, risk) ==
  /\ debit <= reservations[o].debit /\ debit <= cash
  /\ risk <= reservations[o].risk
  /\ risk <= riskCapacity + reservations[o].risk

Buy(o, shares, price, fee, stop, at) ==
  LET event == [type |-> "BUY", order |-> o, at |-> at,
                shares |-> shares, price |-> price, fee |-> fee, stop |-> stop]
      debit == price * shares + fee
  IN
  /\ Fresh(event) /\ InOrder(at)
  /\ o \notin Owned /\ o \in Reserved /\ stop < price
  /\ entriesAllowed(at)
  /\ FitsReservation(o, debit, (price - stop) * shares + fee)
  /\ cash' = cash - debit
  /\ positions' = [positions EXCEPT ![o] =
       [shares |-> shares, basis |-> debit, stop |-> stop, mark |-> price, markedAt |-> at]]
  /\ reservations' = [reservations EXCEPT ![o] = NoReservation]
  /\ lastEventAt' = at /\ durable' = durable \cup {event}
  /\ UNCHANGED <<openingEquity, realizedPnl, session, carriedPnl, losses>>

\* Math.round of the quotient.
Rounded(a, b) == (2 * a + b) \div (2 * b)

basisOf(p, shares) ==
  IF shares = p.shares THEN p.basis ELSE Rounded(p.basis * shares, p.shares)

\* Mutant: what is left keeps the whole basis.
RestKeepsBasis(p, shares) ==
  IF shares = p.shares THEN NoPosition ELSE [p EXCEPT !.shares = p.shares - shares]

Rest(p, shares) ==
  IF shares = p.shares THEN NoPosition
  ELSE [p EXCEPT !.shares = p.shares - shares, !.basis = p.basis - basisOf(p, shares)]

\* Mutant: more may be sold than is owned.
OwnedAtAll(o, shares) == o \in Owned

Sellable(o, shares) == o \in Owned /\ shares <= positions[o].shares

Sell(o, shares, price, fee, at) ==
  LET event == [type |-> "SELL", order |-> o, at |-> at,
                shares |-> shares, price |-> price, fee |-> fee]
      credit == price * shares - fee
  IN
  /\ Fresh(event) /\ InOrder(at)
  /\ Sellable(o, shares)
  /\ cash' = cash + credit
  /\ realizedPnl' = realizedPnl + credit - basisOf(positions[o], shares)
  /\ positions' = [positions EXCEPT ![o] = Rest(positions[o], shares)]
  /\ lastEventAt' = at /\ durable' = durable \cup {event}
  /\ losses' = [risk |-> losses.risk + Positive(positions[o].stop * shares - credit),
                cash |-> losses.cash + Positive(-credit)]
  /\ UNCHANGED <<openingEquity, session, reservations, carriedPnl>>

Mark(instrument, bid, at) ==
  /\ InOrder(at)
  /\ positions' = [o \in Orders |->
       IF o \in Owned /\ InstrumentOf[o] = instrument
       THEN [positions[o] EXCEPT !.mark = bid, !.markedAt = at] ELSE positions[o]]
  /\ lastEventAt' = at
  /\ UNCHANGED <<cash, openingEquity, realizedPnl, session, reservations, durable, carriedPnl, losses>>

\* The positions a session starts with may already risk more than its limit.
Session(at) ==
  /\ InOrder(at)
  /\ ~staleMarks(at) /\ Reserved = {}
  /\ session < MaxSession /\ session' = session + 1
  /\ openingEquity' = equity /\ realizedPnl' = 0
  /\ carriedPnl' = carriedPnl + realizedPnl
  /\ lastEventAt' = at
  /\ losses' = [losses EXCEPT !.risk = Positive(equity - (cash + stopValue(positions)) - DailyLossLimit)]
  /\ UNCHANGED <<cash, positions, reservations, durable>>

Next ==
  \E at \in lastEventAt..MaxTime :
       \/ \E o \in Orders :
            \/ \E debit \in Debits, risk \in Risks : Reserve(o, debit, risk, at)
            \/ Release(o, at)
            \/ \E shares \in Shares, price \in Prices, fee \in Fees :
                 \/ \E stop \in Prices : Buy(o, shares, price, fee, stop, at)
                 \/ Sell(o, shares, price, fee, at)
            \/ \E bid \in Prices : Mark(InstrumentOf[o], bid, at)
       \/ Session(at)

Spec == Init /\ [][Next]_vars

-----------------------------------------------------------------------------
(* The orders' promise.                                                    *)

Applied(type, o) == \E e \in durable : e.type = type /\ e.order = o

\* How far an order is, by the events the log has of it.
stageOf == [o \in Orders |->
  CASE Applied("BUY", o)     -> IF o \in Owned THEN "owned" ELSE "sold"
    [] Applied("RELEASE", o) -> "released"
    [] OTHER -> IF Applied("RESERVE", o) THEN "reserved" ELSE "none"]

Life == INSTANCE OrderLife WITH stage <- stageOf, held <- Reserved, latest <- lastEventAt

\* The log of durable ids and the account's snapshot tell one story of each
\* order, that of OrderLife, whatever is sent again: the snapshot holds a
\* reservation exactly while the log has its RESERVE and neither its RELEASE
\* nor its BUY.
ImplementsOrderLife == Life!Spec

-----------------------------------------------------------------------------
(* Properties.                                                             *)

Events ==
  [type : {"RESERVE"}, order : Orders, at : Nat, debit : Nat, risk : Nat]
  \cup [type : {"RELEASE"}, order : Orders, at : Nat]
  \cup [type : {"BUY"}, order : Orders, at : Nat,
         shares : Nat, price : Nat, fee : Nat, stop : Nat]
  \cup [type : {"SELL"}, order : Orders, at : Nat, shares : Nat, price : Nat, fee : Nat]

\* The account is well formed: shares and marks are never negative.
TypeOK ==
  /\ cash \in Int /\ openingEquity \in Int /\ realizedPnl \in Int /\ carriedPnl \in Int
  /\ session \in 1..MaxSession /\ lastEventAt \in 0..MaxTime
  /\ positions \in [Orders -> [shares : Nat, basis : Int, stop : Nat, mark : Nat, markedAt : Nat]]
  /\ reservations \in [Orders -> [debit : Nat, risk : Nat]]
  /\ durable \subseteq Events
  /\ losses \in [risk : Nat, cash : Nat]

\* Nothing is lost or made between cash, what positions cost and what was
\* realized, through partial sales, their rounding and rollovers.
Conserved == cash + basis = StartingCash + carriedPnl + realizedPnl

\* Open reservations never promise more than the cash there is: every order
\* can be paid, unless exits returned less than their fees.
ReservedFitsCash == reservedCash <= cash + losses.cash

\* If every position is sold at its stop and every reserved order loses its
\* risk, the day loses its limit at most, and what exits took below the stops.
LossIsBounded ==
  cash + stopValue(positions) - reservedRisk >= openingEquity - DailyLossLimit - losses.risk

Flow(e) ==
  CASE e.type = "BUY"  -> -(e.price * e.shares + e.fee)
    [] e.type = "SELL" -> e.price * e.shares - e.fee
    [] OTHER           -> 0

\* The durable events account for the cash: each was applied once, retried or
\* not, and none left its mark on the account without its row.
CashIsAccounted == cash = StartingCash + MapThenSumSet(Flow, durable)

=============================================================================
