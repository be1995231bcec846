------------------------- MODULE FundedLedgerProofs -------------------------
(* The money of FundedLedger, for any number of orders and any amounts.    *)
(* The totals are sums over the orders, so the proofs rest on how a sum    *)
(* changes with one of its terms and on how sums compare.                  *)
EXTENDS FundedLedger, FiniteSetTheorems, TLAPS

USE AccountAssumption DEF Orders

----------------------------------------------------------------------------
(* Sums *)

LEMMA SmallestNat ==
  ASSUME NEW T, T \subseteq Nat, T # {}
  PROVE  \E x \in T : \A y \in T : x <= y
<1> DEFINE R == OpToRel(<, Nat)
<1>1. IsWellFoundedOn(R, Nat)
  BY NatLessThanWellFounded
<1>2. \A x, y \in Nat : y < x => <<y, x>> \in R
  BY DEF OpToRel
<1>3. PICK x \in T : \A y \in T : <<y, x>> \notin R
  <2> HIDE DEF R
  <2> QED  BY <1>1, WFMin
<1>4. \A y \in T : ~ (y < x)
  <2> HIDE DEF R
  <2> QED  BY <1>2, <1>3
<1> QED
  BY <1>4

\* Induction over 0..MaxOrder, for a property given as a set.
LEMMA UpToMaxOrder ==
  ASSUME NEW S, 0 \in S, \A n \in 0..(MaxOrder - 1) : n \in S => n + 1 \in S
  PROVE  \A n \in 0..MaxOrder : n \in S
<1> DEFINE T == {n \in 0..MaxOrder : n \notin S}
<1> SUFFICES ASSUME T # {} PROVE FALSE
  OBVIOUS
<1>0. T \subseteq Nat
  OBVIOUS
<1>1. PICK m \in T : \A y \in T : m <= y
  <2> HIDE DEF T
  <2> QED  BY <1>0, SmallestNat
<1>2. m # 0 /\ m - 1 \in 0..(MaxOrder - 1) /\ m - 1 \in S
  BY <1>1
<1> QED
  BY <1>1, <1>2

\* g holds the partial sums of f up to m.
PartialSums(g, f, m) ==
  /\ g \in [0..m -> Int] /\ g[0] = 0
  /\ \A n \in 1..m : g[n] = g[n - 1] + f[n]

LEMMA PartialSumsExist ==
  ASSUME NEW f \in [Orders -> Int]
  PROVE  \E g : PartialSums(g, f, MaxOrder)
<1> DEFINE S == {m \in 0..MaxOrder : \E g : PartialSums(g, f, m)}
<1>1. 0 \in S
  <2>1. PartialSums([n \in 0..0 |-> 0], f, 0)
    BY DEF PartialSums
  <2> QED  BY <2>1
<1>2. ASSUME NEW m \in 0..(MaxOrder - 1), m \in S PROVE m + 1 \in S
  <2>1. PICK g : PartialSums(g, f, m)
    BY <1>2
  <2>2. PartialSums([n \in 0..(m + 1) |-> IF n = m + 1 THEN g[m] + f[m + 1] ELSE g[n]],
                    f, m + 1)
    BY <2>1 DEF PartialSums
  <2> QED  BY <2>2
<1>3. MaxOrder \in S
  <2> HIDE DEF S
  <2> QED  BY <1>1, <1>2, UpToMaxOrder
<1> QED
  BY <1>3

LEMMA TotalIsLastSum ==
  ASSUME NEW f \in [Orders -> Int], NEW g, PartialSums(g, f, MaxOrder)
  PROVE  Total(f) = g[MaxOrder]
<1> DEFINE Recursion(h) ==
      h = [n \in 0..MaxOrder |-> IF n = 0 THEN 0 ELSE h[n - 1] + f[n]]
           s == CHOOSE h : Recursion(h)
<1>1. Recursion(g)
  BY DEF PartialSums
<1>2. Recursion(s)
  <2> HIDE DEF Recursion
  <2> QED  BY <1>1
<1>3. Total(f) = s[MaxOrder]
  BY DEF Total
<1> HIDE DEF s
<1>4. 0 \in {n \in 0..MaxOrder : s[n] = g[n]}
  BY <1>1, <1>2
<1>5. ASSUME NEW n \in 0..(MaxOrder - 1), n \in {i \in 0..MaxOrder : s[i] = g[i]}
      PROVE  n + 1 \in {i \in 0..MaxOrder : s[i] = g[i]}
  <2>1. n + 1 \in 0..MaxOrder /\ n + 1 # 0 /\ (n + 1) - 1 = n
    OBVIOUS
  <2>2. s[n + 1] = s[n] + f[n + 1]
    BY <1>2, <2>1
  <2>3. g[n + 1] = g[n] + f[n + 1]
    BY <1>1, <2>1
  <2> QED  BY <1>5, <2>1, <2>2, <2>3
<1>6. \A n \in 0..MaxOrder : n \in {i \in 0..MaxOrder : s[i] = g[i]}
  <2> HIDE DEF Recursion
  <2> QED  BY <1>4, <1>5, UpToMaxOrder
<1> QED
  BY <1>3, <1>6

LEMMA TotalIsInt ==
  ASSUME NEW f \in [Orders -> Int]
  PROVE  Total(f) \in Int
<1>1. PICK g : PartialSums(g, f, MaxOrder)
  BY PartialSumsExist
<1>2. Total(f) = g[MaxOrder]
  BY <1>1, TotalIsLastSum
<1> QED
  BY <1>1, <1>2 DEF PartialSums

\* A sum changes as its one changed term does.
LEMMA TotalChanges ==
  ASSUME NEW f \in [Orders -> Int], NEW h \in [Orders -> Int], NEW k \in Orders,
         \A o \in Orders : o # k => h[o] = f[o]
  PROVE  Total(h) = Total(f) - f[k] + h[k]
<1>1. PICK g : PartialSums(g, f, MaxOrder)
  BY PartialSumsExist
<1> DEFINE d == [n \in 0..MaxOrder |-> IF n < k THEN g[n] ELSE g[n] - f[k] + h[k]]
<1>2. PartialSums(d, h, MaxOrder)
  <2>0. f[k] \in Int /\ h[k] \in Int /\ k > 0 /\ k \in Int
    OBVIOUS
  <2>1. d \in [0..MaxOrder -> Int] /\ d[0] = 0
    <3>1. \A n \in 0..MaxOrder : g[n] \in Int
      BY <1>1 DEF PartialSums
    <3>2. d[0] = g[0] /\ g[0] = 0
      BY <1>1, <2>0 DEF PartialSums
    <3> QED  BY <2>0, <3>1, <3>2
  <2>2. ASSUME NEW n \in 1..MaxOrder PROVE d[n] = d[n - 1] + h[n]
    <3>1. g[n] = g[n - 1] + f[n] /\ g[n - 1] \in Int /\ g[n] \in Int
      BY <1>1 DEF PartialSums
    <3>2. CASE n < k  BY <3>1, <3>2
    <3>3. CASE n = k  BY <3>1, <3>3
    <3>4. CASE n > k
      <4>1. n \in Orders /\ h[n] = f[n] /\ f[n] \in Int
        BY <3>4
      <4>2. d[n] = g[n] - f[k] + h[k] /\ d[n - 1] = g[n - 1] - f[k] + h[k]
        BY <2>0, <3>4
      <4> QED  BY <2>0, <3>1, <4>1, <4>2
    <3> QED  BY <3>2, <3>3, <3>4
  <2> QED  BY <2>1, <2>2 DEF PartialSums
<1>3. Total(f) = g[MaxOrder] /\ Total(h) = d[MaxOrder]
  <2> HIDE DEF d
  <2> QED  BY <1>1, <1>2, TotalIsLastSum
<1>4. g[MaxOrder] \in Int
  BY <1>1 DEF PartialSums
<1> QED
  BY <1>3, <1>4

\* A sum of smaller terms is smaller.
LEMMA TotalIsMonotone ==
  ASSUME NEW f \in [Orders -> Int], NEW a \in [Orders -> Int], NEW b \in [Orders -> Int],
         \A o \in Orders : f[o] <= a[o] + b[o]
  PROVE  Total(f) <= Total(a) + Total(b)
<1>1. PICK g : PartialSums(g, f, MaxOrder)
  BY PartialSumsExist
<1>2. PICK x : PartialSums(x, a, MaxOrder)
  BY PartialSumsExist
<1>3. PICK y : PartialSums(y, b, MaxOrder)
  BY PartialSumsExist
<1> DEFINE S == {n \in 0..MaxOrder : g[n] <= x[n] + y[n]}
<1>4. 0 \in S
  BY <1>1, <1>2, <1>3 DEF PartialSums
<1>5. ASSUME NEW n \in 0..(MaxOrder - 1), n \in S PROVE n + 1 \in S
  <2>1. n + 1 \in Orders /\ n + 1 \in 1..MaxOrder /\ (n + 1) - 1 = n /\ n \in 0..MaxOrder
    OBVIOUS
  <2>2. /\ g[n + 1] = g[n] + f[n + 1] /\ g[n] \in Int
        /\ x[n + 1] = x[n] + a[n + 1] /\ x[n] \in Int
        /\ y[n + 1] = y[n] + b[n + 1] /\ y[n] \in Int
    BY <1>1, <1>2, <1>3, <2>1 DEF PartialSums
  <2>3. f[n + 1] \in Int /\ a[n + 1] \in Int /\ b[n + 1] \in Int /\ f[n + 1] <= a[n + 1] + b[n + 1]
    BY <2>1
  <2> QED  BY <1>5, <2>1, <2>2, <2>3
<1>6. MaxOrder \in S
  <2> HIDE DEF S
  <2> QED  BY <1>4, <1>5, UpToMaxOrder
<1> QED
  BY <1>1, <1>2, <1>3, <1>6, TotalIsLastSum

LEMMA TotalOfNothing == Total([o \in Orders |-> 0]) = 0
<1>1. PartialSums([n \in 0..MaxOrder |-> 0], [o \in Orders |-> 0], MaxOrder)
  BY DEF PartialSums
<1> QED
  BY <1>1, TotalIsLastSum

----------------------------------------------------------------------------
(* Types *)

PositionType    == [shares : Nat, basis : Int, stop : Nat, mark : Nat, markedAt : Nat]
ReservationType == [debit : Nat, risk : Nat]

LEMMA TotalsAreInts ==
  ASSUME TypeOK
  PROVE  /\ marketValue \in Int /\ basis \in Int /\ openRisk \in Int
         /\ reservedCash \in Int /\ reservedRisk \in Int /\ stopValue(positions) \in Int
         /\ equity \in Int /\ dailyPnl \in Int /\ riskCapacity \in Int
<1>0. positions \in [Orders -> PositionType] /\ reservations \in [Orders -> ReservationType]
  BY DEF TypeOK, PositionType, ReservationType
<1>1. [o \in Orders |-> positions[o].shares * positions[o].mark] \in [Orders -> Int]
  BY <1>0 DEF PositionType
<1>2. [o \in Orders |-> positions[o].basis] \in [Orders -> Int]
  BY <1>0 DEF PositionType
<1>3. [o \in Orders |-> Positive(positions[o].mark - positions[o].stop) * positions[o].shares]
        \in [Orders -> Int]
  <2>1. ASSUME NEW o \in Orders
        PROVE  Positive(positions[o].mark - positions[o].stop) * positions[o].shares \in Int
    <3>1. positions[o].mark \in Nat /\ positions[o].stop \in Nat /\ positions[o].shares \in Nat
      BY <1>0 DEF PositionType
    <3> QED  BY <3>1 DEF Positive
  <2> QED  BY <2>1
<1>4. [o \in Orders |-> reservations[o].debit] \in [Orders -> Int]
  BY <1>0 DEF ReservationType
<1>5. [o \in Orders |-> reservations[o].risk] \in [Orders -> Int]
  BY <1>0 DEF ReservationType
<1>6. [o \in Orders |-> positions[o].shares * positions[o].stop] \in [Orders -> Int]
  BY <1>0 DEF PositionType
<1>7. /\ marketValue \in Int /\ basis \in Int /\ openRisk \in Int
      /\ reservedCash \in Int /\ reservedRisk \in Int /\ stopValue(positions) \in Int
  BY <1>1, <1>2, <1>3, <1>4, <1>5, <1>6, TotalIsInt
     DEF marketValue, basis, openRisk, reservedCash, reservedRisk, stopValue
<1>8. equity \in Int /\ dailyPnl \in Int
  BY <1>7 DEF equity, dailyPnl, TypeOK
<1> QED
  BY <1>7, <1>8 DEF riskCapacity, Positive

LEMMA PositiveIsNat == \A x \in Int : Positive(x) \in Nat
BY DEF Positive

LEMMA InitTypes == Init => TypeOK
BY DEF Init, TypeOK, NoPosition, NoReservation

\* What is left of a position after a sale is a position.
LEMMA RestIsPosition ==
  ASSUME NEW p \in PositionType, NEW n \in Nat \ {0}, n <= p.shares
  PROVE  Rest(p, n) \in PositionType /\ basisOf(p, n) \in Int
<1>1. /\ p.shares \in Nat /\ p.basis \in Int /\ p.stop \in Nat /\ p.mark \in Nat
      /\ p.markedAt \in Nat
  BY DEF PositionType
<1>2. basisOf(p, n) \in Int
  BY <1>1 DEF basisOf, Rounded
<1>3. CASE n = p.shares
  BY <1>2, <1>3 DEF Rest, NoPosition, PositionType
<1>4. CASE n # p.shares
  <2>1. p.shares - n \in Nat /\ p.basis - basisOf(p, n) \in Int
    BY <1>1, <1>2
  <2> QED  BY <1>2, <1>4, <2>1 DEF Rest, PositionType
<1> QED
  BY <1>3, <1>4

LEMMA StepTypes == TypeOK /\ [Next]_vars => TypeOK'
<1> SUFFICES ASSUME TypeOK, [Next]_vars PROVE TypeOK'
  OBVIOUS
<1> USE EventsAssumption
<1>0. positions \in [Orders -> PositionType] /\ reservations \in [Orders -> ReservationType]
  BY DEF TypeOK, PositionType, ReservationType
<1>1. ASSUME NEW at \in lastEventAt..MaxTime, NEW o \in Orders,
             NEW debit \in Debits, NEW risk \in Risks, Reserve(o, debit, risk, at)
      PROVE  TypeOK'
  <2>1. reservations' \in [Orders -> [debit : Nat, risk : Nat]]
    BY <1>0, <1>1 DEF Reserve, ReservationType
  <2>0. at \in Nat /\ debit \in Nat /\ risk \in Nat
    BY DEF TypeOK
  <2>2. durable' \subseteq Events
    <3> DEFINE event == [type |-> "RESERVE", order |-> o, at |-> at, debit |-> debit, risk |-> risk]
    <3>1. event \in Events
      BY <2>0 DEF Events
    <3>2. durable' = durable \cup {event}
      BY <1>1 DEF Reserve
    <3> QED  BY <3>1, <3>2 DEF TypeOK
  <2> QED  BY <1>1, <2>1, <2>2 DEF Reserve, TypeOK, InOrder
<1>2. ASSUME NEW at \in lastEventAt..MaxTime, NEW o \in Orders, Release(o, at)
      PROVE  TypeOK'
  <2>1. reservations' \in [Orders -> [debit : Nat, risk : Nat]]
    BY <1>0, <1>2 DEF Release, ReservationType, NoReservation
  <2>0. at \in Nat
    BY DEF TypeOK
  <2>2. durable' \subseteq Events
    <3> DEFINE event == [type |-> "RELEASE", order |-> o, at |-> at]
    <3>1. event \in Events
      BY <2>0 DEF Events
    <3>2. durable' = durable \cup {event}
      BY <1>2 DEF Release
    <3> QED  BY <3>1, <3>2 DEF TypeOK
  <2> QED  BY <1>2, <2>1, <2>2 DEF Release, TypeOK, InOrder
<1>3. ASSUME NEW at \in lastEventAt..MaxTime, NEW o \in Orders,
             NEW shares \in Shares, NEW price \in Prices, NEW fee \in Fees, NEW stop \in Prices,
             Buy(o, shares, price, fee, stop, at)
      PROVE  TypeOK'
  <2>0. shares \in Nat /\ price \in Nat /\ fee \in Nat /\ stop \in Nat /\ at \in Nat
    BY DEF TypeOK
  <2>1. reservations' \in [Orders -> [debit : Nat, risk : Nat]]
    BY <1>0, <1>3 DEF Buy, ReservationType, NoReservation
  <2>2. durable' \subseteq Events
    <3> DEFINE event == [type |-> "BUY", order |-> o, at |-> at,
                         shares |-> shares, price |-> price, fee |-> fee, stop |-> stop]
    <3>1. event \in Events
      BY <2>0 DEF Events
    <3>2. durable' = durable \cup {event}
      BY <1>3 DEF Buy
    <3> QED  BY <3>1, <3>2 DEF TypeOK
  <2>3. positions' \in [Orders -> PositionType]
    <3> DEFINE bought == [shares |-> shares, basis |-> price * shares + fee, stop |-> stop,
                          mark |-> price, markedAt |-> at]
    <3>1. bought \in PositionType
      BY <2>0 DEF PositionType
    <3>2. positions' = [positions EXCEPT ![o] = bought]
      BY <1>3 DEF Buy
    <3> HIDE DEF bought
    <3> QED  BY <1>0, <3>1, <3>2
  <2>4. cash' \in Int
    <3>1. price * shares + fee \in Int
      BY <2>0
    <3> QED  BY <1>3, <3>1 DEF Buy, TypeOK
  <2>5. lastEventAt' = at /\ UNCHANGED <<openingEquity, realizedPnl, session, carriedPnl, losses>>
    BY <1>3 DEF Buy
  <2>6. lastEventAt' \in 0..MaxTime
    BY <2>5 DEF TypeOK
  <2> QED  BY <2>1, <2>2, <2>3, <2>4, <2>5, <2>6 DEF TypeOK, PositionType
<1>4. ASSUME NEW at \in lastEventAt..MaxTime, NEW o \in Orders,
             NEW shares \in Shares, NEW price \in Prices, NEW fee \in Fees,
             Sell(o, shares, price, fee, at)
      PROVE  TypeOK'
  <2>0. shares \in Nat \ {0} /\ price \in Nat /\ fee \in Nat /\ at \in Nat
    BY DEF TypeOK
  <2>1. positions[o] \in PositionType /\ shares <= positions[o].shares
    BY <1>0, <1>4 DEF Sell, Sellable
  <2>2. durable' \subseteq Events
    <3> DEFINE event == [type |-> "SELL", order |-> o, at |-> at,
                         shares |-> shares, price |-> price, fee |-> fee]
    <3>1. event \in Events
      BY <2>0 DEF Events
    <3>2. durable' = durable \cup {event}
      BY <1>4 DEF Sell
    <3> QED  BY <3>1, <3>2 DEF TypeOK
  <2>3. positions' \in [Orders -> PositionType]
    BY <1>0, <1>4, <2>0, <2>1, RestIsPosition DEF Sell
  <2>4. cash' \in Int /\ realizedPnl' \in Int
    BY <1>4, <2>0, <2>1, RestIsPosition DEF Sell, TypeOK
  <2>5. losses' \in [risk : Nat, cash : Nat]
    <3>1. positions[o].stop \in Nat
      BY <2>1 DEF PositionType
    <3>2. positions[o].stop * shares \in Int /\ price * shares \in Int
      BY <2>0, <3>1
    <3> DEFINE below == positions[o].stop * shares - (price * shares - fee)
               short == -(price * shares - fee)
    <3>3. below \in Int /\ short \in Int
      BY <2>0, <3>2
    <3>4. losses' = [risk |-> losses.risk + Positive(below), cash |-> losses.cash + Positive(short)]
      BY <1>4 DEF Sell
    <3>5. losses.risk \in Nat /\ losses.cash \in Nat
      BY DEF TypeOK
    <3> HIDE DEF below, short
    <3>6. Positive(below) \in Nat /\ Positive(short) \in Nat
      BY <3>3, PositiveIsNat
    <3> QED  BY <3>4, <3>5, <3>6
  <2>6. lastEventAt' = at /\ UNCHANGED <<openingEquity, session, reservations, carriedPnl>>
    BY <1>4 DEF Sell
  <2>7. lastEventAt' \in 0..MaxTime
    BY <2>6 DEF TypeOK
  <2> QED  BY <2>2, <2>3, <2>4, <2>5, <2>6, <2>7 DEF TypeOK, PositionType
<1>5. ASSUME NEW at \in lastEventAt..MaxTime, NEW i, NEW bid \in Prices, Mark(i, bid, at)
      PROVE  TypeOK'
  <2>1. positions' \in [Orders -> PositionType]
    <3>1. bid \in Nat /\ at \in Nat
      BY DEF TypeOK
    <3>2. ASSUME NEW o \in Orders
          PROVE  [positions[o] EXCEPT !.mark = bid, !.markedAt = at] \in PositionType
      BY <1>0, <3>1 DEF PositionType
    <3> QED  BY <1>0, <1>5, <3>2 DEF Mark
  <2>2. /\ lastEventAt' = at
        /\ UNCHANGED <<cash, openingEquity, realizedPnl, session, reservations, durable,
                       carriedPnl, losses>>
    BY <1>5 DEF Mark
  <2>3. lastEventAt' \in 0..MaxTime
    BY <2>2 DEF TypeOK
  <2> QED  BY <2>1, <2>2, <2>3 DEF TypeOK, PositionType
<1>6. ASSUME NEW at \in lastEventAt..MaxTime, Session(at)
      PROVE  TypeOK'
  <2>1. equity \in Int /\ stopValue(positions) \in Int
    BY TotalsAreInts
  <2>2. losses' \in [risk : Nat, cash : Nat]
    <3>1. equity - (cash + stopValue(positions)) - DailyLossLimit \in Int
      BY <2>1 DEF TypeOK
    <3>2. losses \in [risk : Nat, cash : Nat]
      BY DEF TypeOK
    <3> QED  BY <1>6, <3>1, <3>2, PositiveIsNat DEF Session
  <2>3. carriedPnl' \in Int /\ realizedPnl' \in Int /\ openingEquity' \in Int
    BY <1>6, <2>1 DEF Session, TypeOK
  <2>4. session' \in 1..MaxSession /\ lastEventAt' \in 0..MaxTime
    BY <1>6 DEF Session, TypeOK, InOrder
  <2> QED  BY <1>6, <2>2, <2>3, <2>4 DEF Session, TypeOK
<1>7. CASE UNCHANGED vars
  BY <1>7 DEF vars, TypeOK
<1> QED
  BY <1>1, <1>2, <1>3, <1>4, <1>5, <1>6, <1>7 DEF Next

\* The account is well formed in every reachable state: no event leaves a
\* position with a negative number of shares.
THEOREM LedgerTypes == Spec => []TypeOK
BY InitTypes, StepTypes, PTL DEF Spec

----------------------------------------------------------------------------
(* How an event changes the totals *)

\* Closed positions cost nothing: what a position costs is added once.
ClosedCostNothing == \A o \in Orders : positions[o].shares = 0 => positions[o].basis = 0

LEMMA PositionTotals ==
  ASSUME TypeOK, TypeOK', NEW k \in Orders,
         \A o \in Orders : o # k => positions'[o] = positions[o]
  PROVE  /\ basis' = basis - positions[k].basis + positions'[k].basis
         /\ stopValue(positions') = stopValue(positions)
              - positions[k].shares * positions[k].stop
              + positions'[k].shares * positions'[k].stop
<1>1. /\ [o \in Orders |-> positions[o].basis] \in [Orders -> Int]
      /\ [o \in Orders |-> positions'[o].basis] \in [Orders -> Int]
  BY DEF TypeOK
<1>2. /\ [o \in Orders |-> positions[o].shares * positions[o].stop] \in [Orders -> Int]
      /\ [o \in Orders |-> positions'[o].shares * positions'[o].stop] \in [Orders -> Int]
  <2>1. ASSUME NEW o \in Orders
        PROVE  positions[o].shares * positions[o].stop \in Int
               /\ positions'[o].shares * positions'[o].stop \in Int
    <3>1. /\ positions[o].shares \in Nat /\ positions[o].stop \in Nat
          /\ positions'[o].shares \in Nat /\ positions'[o].stop \in Nat
      BY DEF TypeOK
    <3> QED  BY <3>1
  <2> QED  BY <2>1
<1>3. basis' = basis - positions[k].basis + positions'[k].basis
  <2> DEFINE f == [o \in Orders |-> positions[o].basis]
             h == [o \in Orders |-> positions'[o].basis]
  <2>1. \A o \in Orders : o # k => h[o] = f[o]
    OBVIOUS
  <2>2. f[k] = positions[k].basis /\ h[k] = positions'[k].basis
    OBVIOUS
  <2>3. basis = Total(f) /\ basis' = Total(h)
    BY DEF basis
  <2>4. Total(h) = Total(f) - f[k] + h[k]
    <3> HIDE DEF f, h
    <3> QED  BY <1>1, <2>1, TotalChanges DEF f, h
  <2> QED  BY <2>2, <2>3, <2>4
<1>4. stopValue(positions') = stopValue(positions)
        - positions[k].shares * positions[k].stop + positions'[k].shares * positions'[k].stop
  <2> DEFINE f == [o \in Orders |-> positions[o].shares * positions[o].stop]
             h == [o \in Orders |-> positions'[o].shares * positions'[o].stop]
  <2>1. \A o \in Orders : o # k => h[o] = f[o]
    OBVIOUS
  <2>2. /\ f[k] = positions[k].shares * positions[k].stop
        /\ h[k] = positions'[k].shares * positions'[k].stop
    OBVIOUS
  <2>3. stopValue(positions) = Total(f) /\ stopValue(positions') = Total(h)
    BY DEF stopValue
  <2>4. Total(h) = Total(f) - f[k] + h[k]
    <3> HIDE DEF f, h
    <3> QED  BY <1>2, <2>1, TotalChanges DEF f, h
  <2> QED  BY <2>2, <2>3, <2>4
<1> QED
  BY <1>3, <1>4

LEMMA ReservationTotals ==
  ASSUME TypeOK, TypeOK', NEW k \in Orders,
         \A o \in Orders : o # k => reservations'[o] = reservations[o]
  PROVE  /\ reservedCash' = reservedCash - reservations[k].debit + reservations'[k].debit
         /\ reservedRisk' = reservedRisk - reservations[k].risk + reservations'[k].risk
<1>1. /\ [o \in Orders |-> reservations[o].debit] \in [Orders -> Int]
      /\ [o \in Orders |-> reservations'[o].debit] \in [Orders -> Int]
      /\ [o \in Orders |-> reservations[o].risk] \in [Orders -> Int]
      /\ [o \in Orders |-> reservations'[o].risk] \in [Orders -> Int]
  BY DEF TypeOK
<1>2. reservedCash' = reservedCash - reservations[k].debit + reservations'[k].debit
  <2> DEFINE f == [o \in Orders |-> reservations[o].debit]
             h == [o \in Orders |-> reservations'[o].debit]
  <2>1. \A o \in Orders : o # k => h[o] = f[o]
    OBVIOUS
  <2>2. f[k] = reservations[k].debit /\ h[k] = reservations'[k].debit
    OBVIOUS
  <2>3. reservedCash = Total(f) /\ reservedCash' = Total(h)
    BY DEF reservedCash
  <2>4. Total(h) = Total(f) - f[k] + h[k]
    <3> HIDE DEF f, h
    <3> QED  BY <1>1, <2>1, TotalChanges DEF f, h
  <2> QED  BY <2>2, <2>3, <2>4
<1>3. reservedRisk' = reservedRisk - reservations[k].risk + reservations'[k].risk
  <2> DEFINE f == [o \in Orders |-> reservations[o].risk]
             h == [o \in Orders |-> reservations'[o].risk]
  <2>1. \A o \in Orders : o # k => h[o] = f[o]
    OBVIOUS
  <2>2. f[k] = reservations[k].risk /\ h[k] = reservations'[k].risk
    OBVIOUS
  <2>3. reservedRisk = Total(f) /\ reservedRisk' = Total(h)
    BY DEF reservedRisk
  <2>4. Total(h) = Total(f) - f[k] + h[k]
    <3> HIDE DEF f, h
    <3> QED  BY <1>1, <2>1, TotalChanges DEF f, h
  <2> QED  BY <2>2, <2>3, <2>4
<1> QED
  BY <1>2, <1>3

\* The market value is never above the stops and what is open to be lost.
LEMMA MarketValueBound ==
  ASSUME TypeOK
  PROVE  marketValue <= stopValue(positions) + openRisk
<1> DEFINE f == [o \in Orders |-> positions[o].shares * positions[o].mark]
           a == [o \in Orders |-> positions[o].shares * positions[o].stop]
           b == [o \in Orders |-> Positive(positions[o].mark - positions[o].stop) * positions[o].shares]
<1>1. ASSUME NEW o \in Orders
      PROVE  f[o] \in Int /\ a[o] \in Int /\ b[o] \in Int /\ f[o] <= a[o] + b[o]
  <2>1. positions[o].shares \in Nat /\ positions[o].mark \in Nat /\ positions[o].stop \in Nat
    BY DEF TypeOK
  <2>2. \A n, m, t \in Nat :
          n * m \in Int /\ n * t \in Int /\ Positive(m - t) * n \in Int
          /\ n * m <= n * t + Positive(m - t) * n
    <3> SUFFICES ASSUME NEW n \in Nat, NEW m \in Nat, NEW t \in Nat
                 PROVE  n * m \in Int /\ n * t \in Int /\ Positive(m - t) * n \in Int
                        /\ n * m <= n * t + Positive(m - t) * n
      OBVIOUS
    <3>1. CASE m > t
      <4>1. Positive(m - t) = m - t
        BY <3>1 DEF Positive
      <4>2. (m - t) * n = n * m - n * t
        OBVIOUS
      <4> QED  BY <4>1, <4>2
    <3>2. CASE m <= t
      <4>1. Positive(m - t) = 0
        BY <3>2 DEF Positive
      <4>2. n * m <= n * t
        BY <3>2
      <4> QED  BY <4>1, <4>2
    <3> QED  BY <3>1, <3>2
  <2> QED  BY <2>1, <2>2
<1>2. f \in [Orders -> Int] /\ a \in [Orders -> Int] /\ b \in [Orders -> Int]
  BY <1>1
<1>3. \A o \in Orders : f[o] <= a[o] + b[o]
  BY <1>1
<1>4. Total(f) <= Total(a) + Total(b)
  <2> HIDE DEF f, a, b
  <2> QED  BY <1>2, <1>3, TotalIsMonotone
<1> QED
  BY <1>4 DEF marketValue, stopValue, openRisk

LEMMA EmptyTotals ==
  ASSUME Init
  PROVE  basis = 0 /\ stopValue(positions) = 0 /\ reservedCash = 0 /\ reservedRisk = 0
<1>1. /\ [o \in Orders |-> positions[o].basis] = [o \in Orders |-> 0]
      /\ [o \in Orders |-> positions[o].shares * positions[o].stop] = [o \in Orders |-> 0]
      /\ [o \in Orders |-> reservations[o].debit] = [o \in Orders |-> 0]
      /\ [o \in Orders |-> reservations[o].risk] = [o \in Orders |-> 0]
  BY DEF Init, NoPosition, NoReservation
<1> QED
  BY <1>1, TotalOfNothing DEF basis, stopValue, reservedCash, reservedRisk

\* A mark changes neither what the positions cost nor their stops.
LEMMA MarkTotals ==
  ASSUME \A o \in Orders : /\ positions'[o].shares = positions[o].shares
                           /\ positions'[o].basis = positions[o].basis
                           /\ positions'[o].stop = positions[o].stop
  PROVE  basis' = basis /\ stopValue(positions') = stopValue(positions)
<1>1. [o \in Orders |-> positions'[o].basis] = [o \in Orders |-> positions[o].basis]
  OBVIOUS
<1>2. [o \in Orders |-> positions'[o].shares * positions'[o].stop]
        = [o \in Orders |-> positions[o].shares * positions[o].stop]
  OBVIOUS
<1> QED
  BY <1>1, <1>2 DEF basis, stopValue

----------------------------------------------------------------------------
(* The money *)

MoneyInv == ClosedCostNothing /\ Conserved /\ ReservedFitsCash /\ LossIsBounded

LEMMA InitMoney == Init => MoneyInv
<1> SUFFICES ASSUME Init PROVE MoneyInv
  OBVIOUS
<1>1. cash = StartingCash /\ openingEquity = StartingCash /\ carriedPnl = 0 /\ realizedPnl = 0
      /\ losses.risk = 0 /\ losses.cash = 0
  BY DEF Init
<1>2. ClosedCostNothing
  BY DEF Init, ClosedCostNothing, NoPosition
<1> QED
  BY <1>1, <1>2, EmptyTotals DEF MoneyInv, Conserved, ReservedFitsCash, LossIsBounded

\* Nothing but the reservations changes when an order reserves or releases.
OnlyReservations ==
  UNCHANGED <<cash, openingEquity, realizedPnl, positions, carriedPnl, losses>>

LEMMA ReservationsKeepPositions ==
  ASSUME MoneyInv, OnlyReservations
  PROVE  /\ ClosedCostNothing' /\ Conserved'
         /\ stopValue(positions)' = stopValue(positions)
  BY DEF MoneyInv, OnlyReservations, ClosedCostNothing, Conserved, basis, stopValue

\* What the arithmetic below needs to know of a well-formed account.
LEMMA AmountsAreInts ==
  ASSUME TypeOK
  PROVE  /\ cash \in Int /\ openingEquity \in Int /\ realizedPnl \in Int /\ carriedPnl \in Int
         /\ losses.risk \in Nat /\ losses.cash \in Nat /\ DailyLossLimit \in Nat
         /\ basis \in Int /\ stopValue(positions) \in Int /\ openRisk \in Int
         /\ reservedCash \in Int /\ reservedRisk \in Int /\ equity \in Int
BY TotalsAreInts DEF TypeOK

\* A new reservation fits: its debit the cash, its risk the daily limit.
LEMMA ReserveKeepsMoney ==
  ASSUME TypeOK, TypeOK', MoneyInv,
         NEW at, NEW o \in Orders, NEW debit \in Debits, NEW risk \in Risks,
         Reserve(o, debit, risk, at)
  PROVE  MoneyInv'
<1>1. debit \in Nat /\ debit > 0 /\ risk \in Nat /\ risk > 0
  BY EventsAssumption
<1>2. OnlyReservations /\ o \notin Reserved /\ debit <= buyingPower /\ risk <= remainingDailyRisk
  BY DEF Reserve, OnlyReservations
<1>3. /\ reservations'[o].debit = debit /\ reservations'[o].risk = risk
      /\ reservations[o].debit = 0 /\ reservations[o].risk = 0
      /\ \A x \in Orders : x # o => reservations'[x] = reservations[x]
  <2>1. reservations[o] = NoReservation
    BY <1>2 DEF Reserved
  <2>2. reservations' = [reservations EXCEPT ![o] = [debit |-> debit, risk |-> risk]]
    BY DEF Reserve
  <2>3. reservations \in [Orders -> [debit : Nat, risk : Nat]]
    BY DEF TypeOK
  <2> QED  BY <2>1, <2>2, <2>3 DEF NoReservation
<1>4. reservedCash' = reservedCash + debit /\ reservedRisk' = reservedRisk + risk
  BY <1>1, <1>3, ReservationTotals, TotalsAreInts
<1>5. ReservedFitsCash'
  <2>1. debit <= cash - reservedCash
    BY <1>1, <1>2, AmountsAreInts DEF buyingPower, Positive
  <2>2. cash' = cash /\ losses' = losses
    BY <1>2 DEF OnlyReservations
  <2> QED  BY <1>1, <1>4, <2>1, <2>2, AmountsAreInts DEF ReservedFitsCash
<1>6. LossIsBounded'
  <2>1. risk <= DailyLossLimit - Positive(-dailyPnl) - openRisk - reservedRisk
    BY <1>1, <1>2, TotalsAreInts DEF remainingDailyRisk, riskCapacity, Positive
  <2>2. Positive(-dailyPnl) >= -dailyPnl /\ Positive(-dailyPnl) \in Int /\ dailyPnl \in Int
    BY TotalsAreInts DEF Positive
  <2>3. dailyPnl = equity - openingEquity
    BY DEF dailyPnl
  <2>4. equity <= cash + stopValue(positions) + openRisk
    BY MarketValueBound, TotalsAreInts, AmountsAreInts DEF equity
  <2>5. cash + stopValue(positions) - reservedRisk - risk >= openingEquity - DailyLossLimit
    BY <1>1, <2>1, <2>2, <2>3, <2>4, AmountsAreInts
  <2>6. /\ cash' = cash /\ losses' = losses /\ openingEquity' = openingEquity
        /\ stopValue(positions)' = stopValue(positions)
    BY <1>2, ReservationsKeepPositions DEF OnlyReservations
  <2> QED  BY <1>1, <1>4, <2>5, <2>6, AmountsAreInts DEF LossIsBounded
<1> QED
  BY <1>2, <1>5, <1>6, ReservationsKeepPositions DEF MoneyInv

LEMMA ReleaseKeepsMoney ==
  ASSUME TypeOK, TypeOK', MoneyInv, NEW at, NEW o \in Orders, Release(o, at)
  PROVE  MoneyInv'
<1>1. OnlyReservations
  BY DEF Release, OnlyReservations
<1>2. /\ reservations'[o].debit = 0 /\ reservations'[o].risk = 0
      /\ reservations[o].debit \in Nat /\ reservations[o].risk \in Nat
      /\ \A x \in Orders : x # o => reservations'[x] = reservations[x]
  BY DEF Release, NoReservation, TypeOK
<1>3. reservedCash' <= reservedCash /\ reservedRisk' <= reservedRisk
      /\ reservedCash' \in Int /\ reservedRisk' \in Int
  BY <1>2, ReservationTotals, TotalsAreInts
<1>4. /\ cash' = cash /\ losses' = losses /\ openingEquity' = openingEquity
      /\ stopValue(positions)' = stopValue(positions)
  BY <1>1, ReservationsKeepPositions DEF OnlyReservations
<1>5. ReservedFitsCash'
  <2>1. reservedCash <= cash + losses.cash
    BY DEF MoneyInv, ReservedFitsCash
  <2> QED  BY <1>3, <1>4, <2>1, AmountsAreInts DEF ReservedFitsCash
<1>6. LossIsBounded'
  <2>1. cash + stopValue(positions) - reservedRisk >= openingEquity - DailyLossLimit - losses.risk
    BY DEF MoneyInv, LossIsBounded
  <2> QED  BY <1>3, <1>4, <2>1, AmountsAreInts DEF LossIsBounded
<1> QED
  BY <1>1, <1>5, <1>6, ReservationsKeepPositions DEF MoneyInv

\* A fill takes its price from cash, gives its reservation back and leaves
\* the account its stop: the reserved risk covered the difference.
LEMMA BuyKeepsMoney ==
  ASSUME TypeOK, TypeOK', MoneyInv,
         NEW at, NEW o \in Orders, NEW shares \in Shares, NEW price \in Prices,
         NEW fee \in Fees, NEW stop \in Prices, Buy(o, shares, price, fee, stop, at)
  PROVE  MoneyInv'
<1> DEFINE value == price * shares
           kept  == shares * stop
           p     == [shares |-> shares, basis |-> value + fee, stop |-> stop,
                     mark |-> price, markedAt |-> at]
<1>1. /\ value \in Int /\ kept \in Int /\ fee \in Nat /\ shares \in Nat /\ shares > 0
      /\ (price - stop) * shares = value - kept
  <2>1. price \in Nat /\ shares \in Nat /\ shares > 0 /\ stop \in Nat /\ fee \in Nat
    BY EventsAssumption
  <2> QED  BY <2>1
<1>2. /\ value + fee <= reservations[o].debit
      /\ value - kept + fee <= reservations[o].risk
      /\ reservations[o].debit \in Nat /\ reservations[o].risk \in Nat
  <2>1. /\ price * shares + fee <= reservations[o].debit
        /\ (price - stop) * shares + fee <= reservations[o].risk
    BY DEF Buy, FitsReservation
  <2>2. reservations[o].debit \in Nat /\ reservations[o].risk \in Nat
    BY DEF TypeOK
  <2> QED  BY <1>1, <2>1, <2>2
<1>3. /\ cash' = cash - (value + fee)
      /\ UNCHANGED <<openingEquity, realizedPnl, carriedPnl, losses>>
      /\ positions' = [positions EXCEPT ![o] = p]
      /\ reservations' = [reservations EXCEPT ![o] = NoReservation]
  BY DEF Buy
<1>4. positions[o].shares = 0 /\ positions[o].basis = 0 /\ positions[o].stop \in Nat
  <2>1. o \notin Owned
    BY DEF Buy
  <2>2. positions[o].shares \in Nat /\ positions[o].stop \in Nat
    BY DEF TypeOK
  <2>3. positions[o].shares = 0
    BY <2>1, <2>2 DEF Owned
  <2> QED  BY <2>2, <2>3 DEF MoneyInv, ClosedCostNothing
<1>5. /\ positions'[o] = p
      /\ \A x \in Orders : x # o => positions'[x] = positions[x]
      /\ \A x \in Orders : x # o => reservations'[x] = reservations[x]
      /\ reservations'[o].debit = 0 /\ reservations'[o].risk = 0
  <2>1. o \in DOMAIN positions /\ o \in DOMAIN reservations
    BY DEF TypeOK
  <2>2. DOMAIN positions = Orders /\ DOMAIN reservations = Orders
    BY DEF TypeOK
  <2> HIDE DEF p
  <2> QED  BY <1>3, <2>1, <2>2 DEF NoReservation
<1>6. basis' = basis + value + fee /\ stopValue(positions') = stopValue(positions) + kept
  <2>1. p.basis = value + fee /\ p.shares * p.stop = kept
    OBVIOUS
  <2>2. positions[o].shares * positions[o].stop = 0
    BY <1>4
  <2>3. /\ basis' = basis - positions[o].basis + positions'[o].basis
        /\ stopValue(positions') = stopValue(positions) - positions[o].shares * positions[o].stop
             + positions'[o].shares * positions'[o].stop
    BY <1>5, PositionTotals
  <2> HIDE DEF p, value, kept
  <2> QED  BY <1>1, <1>4, <1>5, <2>1, <2>2, <2>3, AmountsAreInts
<1>7. /\ reservedCash' = reservedCash - reservations[o].debit
      /\ reservedRisk' = reservedRisk - reservations[o].risk
  BY <1>2, <1>5, ReservationTotals, AmountsAreInts
<1>8. ClosedCostNothing'
  <2>1. p.shares = shares
    OBVIOUS
  <2> HIDE DEF p
  <2> QED  BY <1>1, <1>5, <2>1 DEF MoneyInv, ClosedCostNothing
<1> HIDE DEF p, value, kept
<1>9. Conserved'
  <2>1. cash + basis = StartingCash + carriedPnl + realizedPnl
    BY DEF MoneyInv, Conserved
  <2> QED  BY <1>1, <1>3, <1>6, <2>1, AmountsAreInts DEF Conserved
<1>10. ReservedFitsCash'
  <2>1. reservedCash <= cash + losses.cash
    BY DEF MoneyInv, ReservedFitsCash
  <2> QED  BY <1>1, <1>2, <1>3, <1>7, <2>1, AmountsAreInts DEF ReservedFitsCash
<1>11. LossIsBounded'
  <2>1. cash + stopValue(positions) - reservedRisk >= openingEquity - DailyLossLimit - losses.risk
    BY DEF MoneyInv, LossIsBounded
  <2>2. stopValue(positions)' = stopValue(positions) + kept
    BY <1>6 DEF stopValue
  <2> QED  BY <1>1, <1>2, <1>3, <1>7, <2>1, <2>2, AmountsAreInts DEF LossIsBounded
<1> QED
  BY <1>8, <1>9, <1>10, <1>11 DEF MoneyInv

LEMMA RestOfPosition ==
  ASSUME NEW p \in PositionType, NEW n \in Nat \ {0}, n <= p.shares
  PROVE  /\ Rest(p, n).basis = p.basis - basisOf(p, n)
         /\ Rest(p, n).shares * Rest(p, n).stop = p.shares * p.stop - n * p.stop
         /\ Rest(p, n).shares = 0 => Rest(p, n).basis = 0
<1>1. p.shares \in Nat /\ p.basis \in Int /\ p.stop \in Nat /\ basisOf(p, n) \in Int
  BY RestIsPosition DEF PositionType
<1>2. CASE n = p.shares
  <2>1. Rest(p, n) = NoPosition /\ basisOf(p, n) = p.basis
    BY <1>2 DEF Rest, basisOf
  <2> QED  BY <1>1, <1>2, <2>1 DEF NoPosition
<1>3. CASE n # p.shares
  <2>1. /\ Rest(p, n).shares = p.shares - n /\ Rest(p, n).stop = p.stop
        /\ Rest(p, n).basis = p.basis - basisOf(p, n)
    BY <1>3 DEF Rest, PositionType
  <2>2. (p.shares - n) * p.stop = p.shares * p.stop - n * p.stop /\ p.shares - n # 0
    BY <1>1, <1>3
  <2> QED  BY <2>1, <2>2
<1> QED
  BY <1>2, <1>3

\* A sale moves the basis of what is sold from the position to what was
\* realized; what it fails to return against the stop is a loss.
LEMMA SellKeepsMoney ==
  ASSUME TypeOK, TypeOK', MoneyInv,
         NEW at, NEW o \in Orders, NEW shares \in Shares, NEW price \in Prices,
         NEW fee \in Fees, Sell(o, shares, price, fee, at)
  PROVE  MoneyInv'
<1> DEFINE credit == price * shares - fee
           sold   == basisOf(positions[o], shares)
           stops  == shares * positions[o].stop
<1>1. /\ positions[o] \in PositionType /\ shares \in Nat \ {0} /\ shares <= positions[o].shares
      /\ credit \in Int /\ sold \in Int /\ stops \in Int
  <2>1. price \in Nat /\ shares \in Nat \ {0} /\ fee \in Nat
    BY EventsAssumption
  <2>2. positions[o] \in PositionType
    BY DEF TypeOK, PositionType
  <2>3. shares <= positions[o].shares
    BY DEF Sell, Sellable
  <2>4. positions[o].stop \in Nat
    BY <2>2 DEF PositionType
  <2> QED  BY <2>1, <2>2, <2>3, <2>4, RestIsPosition
<1>2. /\ cash' = cash + credit /\ realizedPnl' = realizedPnl + credit - sold
      /\ UNCHANGED <<openingEquity, reservations, carriedPnl>>
      /\ positions' = [positions EXCEPT ![o] = Rest(positions[o], shares)]
      /\ losses' = [risk |-> losses.risk + Positive(positions[o].stop * shares - credit),
                    cash |-> losses.cash + Positive(-credit)]
  BY DEF Sell
<1>3. /\ positions'[o] = Rest(positions[o], shares)
      /\ \A x \in Orders : x # o => positions'[x] = positions[x]
  <2>1. DOMAIN positions = Orders
    BY DEF TypeOK
  <2> QED  BY <1>2, <2>1
<1>4. positions[o].stop * shares = stops
  <2>1. positions[o].stop \in Nat
    BY <1>1 DEF PositionType
  <2> QED  BY <1>1, <2>1
<1> HIDE DEF credit, sold, stops
<1>5. basis' = basis - sold /\ stopValue(positions') = stopValue(positions) - stops
  <2>1. /\ positions'[o].basis = positions[o].basis - sold
        /\ positions'[o].shares * positions'[o].stop = positions[o].shares * positions[o].stop - stops
    BY <1>1, <1>3, RestOfPosition DEF sold, stops
  <2>2. positions[o].basis \in Int /\ positions[o].shares * positions[o].stop \in Int
    BY <1>1 DEF PositionType
  <2> QED  BY <1>1, <1>3, <2>1, <2>2, PositionTotals, AmountsAreInts
<1>6. losses'.risk >= losses.risk /\ losses'.risk >= losses.risk + stops - credit
      /\ losses'.cash >= losses.cash /\ losses'.cash >= losses.cash - credit
      /\ losses'.risk \in Int /\ losses'.cash \in Int
  BY <1>1, <1>2, <1>4, AmountsAreInts DEF Positive
<1>7. reservedCash' = reservedCash /\ reservedRisk' = reservedRisk
  BY <1>2 DEF reservedCash, reservedRisk
<1>8. ClosedCostNothing'
  BY <1>1, <1>3, RestOfPosition DEF MoneyInv, ClosedCostNothing
<1>9. Conserved'
  <2>1. cash + basis = StartingCash + carriedPnl + realizedPnl
    BY DEF MoneyInv, Conserved
  <2> QED  BY <1>1, <1>2, <1>5, <2>1, AmountsAreInts DEF Conserved
<1>10. ReservedFitsCash'
  <2>1. reservedCash <= cash + losses.cash
    BY DEF MoneyInv, ReservedFitsCash
  <2> QED  BY <1>1, <1>2, <1>6, <1>7, <2>1, AmountsAreInts DEF ReservedFitsCash
<1>11. LossIsBounded'
  <2>1. cash + stopValue(positions) - reservedRisk >= openingEquity - DailyLossLimit - losses.risk
    BY DEF MoneyInv, LossIsBounded
  <2>2. stopValue(positions)' = stopValue(positions) - stops
    BY <1>5 DEF stopValue
  <2> QED  BY <1>1, <1>2, <1>6, <1>7, <2>1, <2>2, AmountsAreInts DEF LossIsBounded
<1> QED
  BY <1>8, <1>9, <1>10, <1>11 DEF MoneyInv

LEMMA MarkKeepsMoney ==
  ASSUME TypeOK, MoneyInv, NEW at, NEW i, NEW bid, Mark(i, bid, at)
  PROVE  MoneyInv'
<1>1. \A o \in Orders : /\ positions'[o].shares = positions[o].shares
                        /\ positions'[o].basis = positions[o].basis
                        /\ positions'[o].stop = positions[o].stop
  BY DEF Mark, TypeOK
<1>2. /\ UNCHANGED <<cash, openingEquity, realizedPnl, reservations, carriedPnl, losses>>
      /\ basis' = basis /\ stopValue(positions)' = stopValue(positions)
      /\ reservedCash' = reservedCash /\ reservedRisk' = reservedRisk
  BY <1>1, MarkTotals DEF Mark, stopValue, reservedCash, reservedRisk
<1> QED
  BY <1>1, <1>2
  DEF MoneyInv, ClosedCostNothing, Conserved, ReservedFitsCash, LossIsBounded

\* A session opens at its equity: what its positions risk beyond the limit is
\* carried into it.
LEMMA SessionKeepsMoney ==
  ASSUME TypeOK, MoneyInv, NEW at, Session(at)
  PROVE  MoneyInv'
<1>1. /\ UNCHANGED <<cash, positions, reservations>> /\ Reserved = {}
      /\ openingEquity' = equity /\ realizedPnl' = 0 /\ carriedPnl' = carriedPnl + realizedPnl
      /\ losses'.risk = Positive(equity - (cash + stopValue(positions)) - DailyLossLimit)
      /\ losses'.cash = losses.cash
  BY DEF Session, TypeOK
<1>2. /\ basis' = basis /\ stopValue(positions)' = stopValue(positions)
      /\ reservedCash' = reservedCash /\ reservedRisk' = reservedRisk
  BY <1>1 DEF basis, stopValue, reservedCash, reservedRisk
<1>3. reservedRisk = 0
  <2>1. \A o \in Orders : reservations[o] = NoReservation
    BY <1>1 DEF Reserved
  <2>2. [o \in Orders |-> reservations[o].risk] = [o \in Orders |-> 0]
    BY <2>1 DEF NoReservation
  <2> QED  BY <2>2, TotalOfNothing DEF reservedRisk
<1>4. ClosedCostNothing'
  BY <1>1 DEF MoneyInv, ClosedCostNothing
<1>5. Conserved'
  <2>1. cash + basis = StartingCash + carriedPnl + realizedPnl
    BY DEF MoneyInv, Conserved
  <2> QED  BY <1>1, <1>2, <2>1, AmountsAreInts DEF Conserved
<1>6. ReservedFitsCash'
  BY <1>1, <1>2 DEF MoneyInv, ReservedFitsCash
<1>7. LossIsBounded'
  BY <1>1, <1>2, <1>3, AmountsAreInts DEF LossIsBounded, Positive
<1> QED
  BY <1>4, <1>5, <1>6, <1>7 DEF MoneyInv

LEMMA StepMoney == TypeOK /\ TypeOK' /\ MoneyInv /\ [Next]_vars => MoneyInv'
<1> SUFFICES ASSUME TypeOK, TypeOK', MoneyInv, [Next]_vars PROVE MoneyInv'
  OBVIOUS
<1>1. CASE UNCHANGED vars
  BY <1>1 DEF vars, MoneyInv, ClosedCostNothing, Conserved, ReservedFitsCash, LossIsBounded,
              basis, stopValue, reservedCash, reservedRisk
<1>2. CASE Next
  BY <1>2, ReserveKeepsMoney, ReleaseKeepsMoney, BuyKeepsMoney, SellKeepsMoney,
     MarkKeepsMoney, SessionKeepsMoney DEF Next
<1> QED
  BY <1>1, <1>2

LEMMA MoneyHolds == Spec => []MoneyInv
<1>1. Spec => [](TypeOK /\ MoneyInv)
  BY InitTypes, StepTypes, InitMoney, StepMoney, PTL DEF Spec
<1> QED
  BY <1>1, PTL

\* Cash and the cost of the positions add up to the funding and what was
\* realized, however sales are split and rounded and sessions roll over.
THEOREM MoneyIsConserved == Spec => []Conserved
<1>1. MoneyInv => Conserved
  BY DEF MoneyInv
<1> QED
  BY <1>1, MoneyHolds, PTL

\* Every open reservation can be paid, unless exits returned less than their
\* fees: RESERVE and BUY keep their debits within the cash.
THEOREM ReservationsFit == Spec => []ReservedFitsCash
<1>1. MoneyInv => ReservedFitsCash
  BY DEF MoneyInv
<1> QED
  BY <1>1, MoneyHolds, PTL

\* The daily loss limit holds for the account if every stop is met, whatever
\* the entries and the marks in between.
THEOREM LimitHolds == Spec => []LossIsBounded
<1>1. MoneyInv => LossIsBounded
  BY DEF MoneyInv
<1> QED
  BY <1>1, MoneyHolds, PTL

----------------------------------------------------------------------------
(* Sums over the durable events *)

Flows(S)  == MapThenSumSet(Flow, S)
Chosen(S) == CHOOSE e \in S : TRUE

\* h sums the flows of the subsets of U, as MapThenSumSet does it.
SumsFlows(h, U) ==
  h = [S \in SUBSET U |-> IF S = {} THEN 0 ELSE Flow(Chosen(S)) + h[S \ {Chosen(S)}]]

LEMMA FlowIsInt == \A e \in Events : Flow(e) \in Int
<1> SUFFICES ASSUME NEW e \in Events PROVE Flow(e) \in Int
  OBVIOUS
<1>1. CASE e.type = "BUY"
  <2>1. e.price \in Nat /\ e.shares \in Nat /\ e.fee \in Nat
    BY <1>1 DEF Events
  <2> QED  BY <1>1, <2>1 DEF Flow
<1>2. CASE e.type = "SELL"
  <2>1. e.price \in Nat /\ e.shares \in Nat /\ e.fee \in Nat
    BY <1>2 DEF Events
  <2> QED  BY <1>2, <2>1 DEF Flow
<1>3. CASE e.type \notin {"BUY", "SELL"}
  BY <1>3 DEF Flow
<1> QED
  BY <1>1, <1>2, <1>3

LEMMA FlowsUnfolds ==
  ASSUME NEW U
  PROVE  Flows(U) = (CHOOSE h : SumsFlows(h, U))[U]
BY DEF Flows, MapThenSumSet, MapThenFoldSet, SumsFlows, Chosen

\* Of a set of subsets of a finite set, one loses its membership with any of
\* its elements.
LEMMA SmallestSubset ==
  ASSUME NEW U, IsFiniteSet(U), NEW T \in SUBSET SUBSET U, T # {}
  PROVE  \E S \in T : \A e \in S : S \ {e} \notin T
<1>1. ASSUME NEW S \in T
      PROVE  IsFiniteSet(S) /\ Cardinality(S) \in Nat
  <2>1. IsFiniteSet(S)
    BY FS_Subset
  <2> QED  BY <2>1, FS_CardinalityType
<1> DEFINE Sizes == {Cardinality(S) : S \in T}
<1>2. Sizes \subseteq Nat /\ Sizes # {}
  BY <1>1
<1>3. PICK n \in Sizes : \A k \in Sizes : n <= k
  <2> HIDE DEF Sizes
  <2> QED  BY <1>2, SmallestNat
<1>4. PICK S \in T : n = Cardinality(S)
  OBVIOUS
<1>5. ASSUME NEW e \in S, S \ {e} \in T
      PROVE  FALSE
  <2>1. Cardinality(S \ {e}) = n - 1
    BY <1>1, <1>4, FS_RemoveElement
  <2>2. n <= n - 1
    BY <1>3, <1>5, <2>1
  <2> QED  BY <1>1, <1>4, <2>2
<1> QED
  BY <1>5

\* The sums exist for the subsets of n elements, and so for those of n + 1.
Small(U, n) == {S \in SUBSET U : Cardinality(S) <= n}

SumsUpTo(h, U, n) ==
  /\ h \in [Small(U, n) -> Int]
  /\ \A S \in Small(U, n) :
       h[S] = IF S = {} THEN 0 ELSE Flow(Chosen(S)) + h[S \ {Chosen(S)}]

LEMMA LeavesSmaller ==
  ASSUME NEW U, IsFiniteSet(U), NEW n \in Nat, NEW S \in Small(U, n), S # {}
  PROVE  /\ Chosen(S) \in S /\ n # 0
         /\ S \ {Chosen(S)} \in Small(U, n - 1) /\ S \ {Chosen(S)} \in Small(U, n)
<1>1. Chosen(S) \in S
  BY DEF Chosen
<1>2. S \in SUBSET U /\ Cardinality(S) <= n
  BY DEF Small
<1>3. IsFiniteSet(S)
  BY <1>2, FS_Subset
<1>4. Cardinality(S) \in Nat /\ Cardinality(S \ {Chosen(S)}) = Cardinality(S) - 1
  BY <1>1, <1>3, FS_CardinalityType, FS_RemoveElement
<1>5. Cardinality(S \ {Chosen(S)}) \in Nat
  BY <1>3, FS_RemoveElement, FS_CardinalityType
<1> QED
  BY <1>1, <1>2, <1>4, <1>5 DEF Small

LEMMA SumsUpToExist ==
  ASSUME NEW U \in SUBSET Events, IsFiniteSet(U), NEW n \in Nat
  PROVE  \E h : SumsUpTo(h, U, n)
<1> DEFINE Bad == {m \in Nat : \A h : ~SumsUpTo(h, U, m)}
<1> SUFFICES ASSUME Bad # {} PROVE FALSE
  OBVIOUS
<1>1. PICK m \in Bad : \A k \in Bad : m <= k
  <2>1. Bad \subseteq Nat
    OBVIOUS
  <2> HIDE DEF Bad
  <2> QED  BY <2>1, SmallestNat
<1>2. m # 0
  <2> SUFFICES ASSUME m = 0 PROVE FALSE
    OBVIOUS
  <2>1. \A S \in Small(U, 0) : S = {}
    BY LeavesSmaller
  <2>2. SumsUpTo([S \in Small(U, 0) |-> 0], U, 0)
    BY <2>1 DEF SumsUpTo
  <2> QED  BY <2>2
<1>3. m - 1 \in Nat /\ m - 1 \notin Bad
  BY <1>1, <1>2
<1>4. PICK h : SumsUpTo(h, U, m - 1)
  BY <1>3
<1> DEFINE g == [S \in Small(U, m) |->
                   IF S = {} THEN 0 ELSE Flow(Chosen(S)) + h[S \ {Chosen(S)}]]
<1>5. ASSUME NEW S \in Small(U, m), S # {}
      PROVE  /\ S \ {Chosen(S)} \in Small(U, m - 1) /\ S \ {Chosen(S)} \in Small(U, m)
             /\ Flow(Chosen(S)) \in Int
  <2>1. Chosen(S) \in S /\ S \in SUBSET U
    BY <1>5, LeavesSmaller DEF Small
  <2>2. Chosen(S) \in Events
    BY <2>1
  <2> QED  BY <1>5, <2>2, LeavesSmaller, FlowIsInt
<1>6. \A S \in Small(U, m - 1) : h[S] \in Int
  BY <1>4 DEF SumsUpTo
<1>7. ASSUME NEW S \in Small(U, m - 1), S \in Small(U, m)
      PROVE  g[S] = h[S]
  BY <1>4, <1>7 DEF SumsUpTo
<1>8. g \in [Small(U, m) -> Int]
  BY <1>5, <1>6
<1>9. ASSUME NEW S \in Small(U, m)
      PROVE  g[S] = IF S = {} THEN 0 ELSE Flow(Chosen(S)) + g[S \ {Chosen(S)}]
  <2>1. CASE S = {}
    BY <2>1
  <2>2. CASE S # {}
    <3>1. g[S \ {Chosen(S)}] = h[S \ {Chosen(S)}]
      <4> HIDE DEF g
      <4> QED  BY <1>5, <1>7, <2>2
    <3> QED  BY <2>2, <3>1
  <2> QED  BY <2>1, <2>2
<1>10. SumsUpTo(g, U, m)
  <2> HIDE DEF g
  <2> QED  BY <1>8, <1>9 DEF SumsUpTo
<1> QED
  BY <1>10

LEMMA SumsExist ==
  ASSUME NEW U \in SUBSET Events, IsFiniteSet(U)
  PROVE  \E h : SumsFlows(h, U) /\ h \in [SUBSET U -> Int]
<1>1. Cardinality(U) \in Nat
  BY FS_CardinalityType
<1>2. Small(U, Cardinality(U)) = SUBSET U
  BY FS_Subset DEF Small
<1>3. PICK h : SumsUpTo(h, U, Cardinality(U))
  BY <1>1, SumsUpToExist
<1>4. h \in [SUBSET U -> Int]
  BY <1>2, <1>3 DEF SumsUpTo
<1>5. SumsFlows(h, U)
  BY <1>2, <1>3, <1>4 DEF SumsUpTo, SumsFlows
<1> QED
  BY <1>4, <1>5

\* What sums the subsets of a set sums those of its subsets: there is one sum.
LEMMA OneSum ==
  ASSUME NEW U \in SUBSET Events, IsFiniteSet(U), NEW h, SumsFlows(h, U),
         NEW S \in SUBSET U
  PROVE  Flows(S) = h[S]
<1> DEFINE c == CHOOSE g : SumsFlows(g, S)
<1>1. IsFiniteSet(S) /\ S \in SUBSET Events
  BY FS_Subset
<1>2. SumsFlows(c, S)
  BY <1>1, SumsExist
<1>3. Flows(S) = c[S]
  BY FlowsUnfolds
<1> HIDE DEF c
<1> DEFINE Differ == {T \in SUBSET S : c[T] # h[T]}
<1>4. Differ = {}
  <2> SUFFICES ASSUME Differ # {} PROVE FALSE
    OBVIOUS
  <2>1. PICK T \in Differ : \A e \in T : T \ {e} \notin Differ
    <3>1. Differ \in SUBSET SUBSET S
      OBVIOUS
    <3> HIDE DEF Differ
    <3> QED  BY <1>1, <3>1, SmallestSubset
  <2>2. T \in SUBSET S /\ T \in SUBSET U /\ c[T] # h[T]
    BY <2>1
  <2>3. /\ c[T] = IF T = {} THEN 0 ELSE Flow(Chosen(T)) + c[T \ {Chosen(T)}]
        /\ h[T] = IF T = {} THEN 0 ELSE Flow(Chosen(T)) + h[T \ {Chosen(T)}]
    BY <1>2, <2>2 DEF SumsFlows
  <2>4. T # {}
    BY <2>2, <2>3
  <2>5. Chosen(T) \in T
    BY <2>4 DEF Chosen
  <2>6. c[T \ {Chosen(T)}] = h[T \ {Chosen(T)}]
    BY <2>1, <2>2, <2>5
  <2> QED  BY <2>2, <2>3, <2>6
<1> QED
  BY <1>3, <1>4

LEMMA FlowsOfChosen ==
  ASSUME NEW S \in SUBSET Events, IsFiniteSet(S)
  PROVE  /\ Flows(S) \in Int
         /\ S = {} => Flows(S) = 0
         /\ S # {} => /\ Chosen(S) \in S
                      /\ Flows(S) = Flow(Chosen(S)) + Flows(S \ {Chosen(S)})
<1>1. PICK h : SumsFlows(h, S) /\ h \in [SUBSET S -> Int]
  BY SumsExist
<1>2. \A T \in SUBSET S : Flows(T) = h[T]
  BY <1>1, OneSum
<1>3. h[S] \in Int /\ h[S] = IF S = {} THEN 0 ELSE Flow(Chosen(S)) + h[S \ {Chosen(S)}]
  BY <1>1 DEF SumsFlows
<1>4. S # {} => Chosen(S) \in S
  BY DEF Chosen
<1> QED
  BY <1>2, <1>3, <1>4

\* An event adds its flow, in whatever order the set is summed.
LEMMA FlowsAdd ==
  ASSUME NEW S \in SUBSET Events, IsFiniteSet(S), NEW e \in Events, e \notin S
  PROVE  Flows(S \cup {e}) = Flows(S) + Flow(e)
<1> DEFINE U == S \cup {e}
           Bad == {T \in SUBSET U : \E d \in U \ T : Flows(T \cup {d}) # Flows(T) + Flow(d)}
<1>1. U \in SUBSET Events /\ IsFiniteSet(U)
  BY FS_AddElement
<1>2. ASSUME NEW T \in SUBSET U
      PROVE  T \in SUBSET Events /\ IsFiniteSet(T) /\ Flows(T) \in Int
  <2> HIDE DEF U
  <2>1. T \in SUBSET Events /\ IsFiniteSet(T)
    BY <1>1, FS_Subset
  <2> QED  BY <2>1, FlowsOfChosen
<1>3. Bad = {}
  <2> SUFFICES ASSUME Bad # {} PROVE FALSE
    OBVIOUS
  <2>1. PICK T \in Bad : \A x \in T : T \ {x} \notin Bad
    <3>1. Bad \in SUBSET SUBSET U
      OBVIOUS
    <3> HIDE DEF Bad, U
    <3> QED  BY <1>1, <3>1, SmallestSubset
  <2>2. PICK d \in U \ T : Flows(T \cup {d}) # Flows(T) + Flow(d)
    BY <2>1
  <2> DEFINE W == T \cup {d}
             x == Chosen(W)
  <2>3. W \in SUBSET U /\ T \in SUBSET U /\ d \in Events
    BY <1>1, <2>1, <2>2
  <2>4. x \in W /\ Flows(W) = Flow(x) + Flows(W \ {x})
    <3>1. W # {} /\ W \in SUBSET Events /\ IsFiniteSet(W)
      BY <1>2, <2>3
    <3> HIDE DEF W
    <3> QED  BY <3>1, FlowsOfChosen
  <2> HIDE DEF x
  <2>5. x \in Events /\ Flow(x) \in Int /\ Flow(d) \in Int
    BY <1>1, <2>3, <2>4, FlowIsInt
  <2>6. CASE x = d
    <3>1. W \ {x} = T
      BY <2>2, <2>6
    <3>2. Flows(T) \in Int
      BY <1>2, <2>3
    <3> HIDE DEF W
    <3>3. Flows(W) = Flow(d) + Flows(T)
      BY <2>4, <2>6, <3>1
    <3>4. Flows(W) = Flows(T) + Flow(d)
      BY <2>5, <3>2, <3>3
    <3> QED  BY <2>2, <3>4 DEF W
  <2>7. CASE x # d
    <3> DEFINE R == T \ {x}
    <3>1. x \in T /\ R \in SUBSET U /\ R \notin Bad /\ d \in U \ R /\ x \in U \ R
      BY <2>1, <2>2, <2>3, <2>4, <2>7
    <3>2. W \ {x} = R \cup {d} /\ T = R \cup {x}
      BY <2>7, <3>1
    <3> HIDE DEF R, W, U
    <3>3. Flows(R \cup {d}) = Flows(R) + Flow(d) /\ Flows(R \cup {x}) = Flows(R) + Flow(x)
      BY <3>1
    <3>4. Flows(R) \in Int
      BY <1>2, <3>1
    <3>5. Flows(W) = Flow(x) + (Flows(R) + Flow(d)) /\ Flows(T) = Flows(R) + Flow(x)
      BY <2>4, <3>2, <3>3
    <3>6. Flows(W) = Flows(T) + Flow(d)
      BY <2>5, <3>4, <3>5
    <3> QED  BY <2>2, <3>6 DEF W
  <2> QED  BY <2>6, <2>7
<1> QED
  BY <1>3

----------------------------------------------------------------------------
(* The cash is the sum of the applied events *)

\* The durable events are finitely many, and each is applied once.
CashInv == IsFiniteSet(durable) /\ CashIsAccounted

LEMMA AppliedOnce ==
  ASSUME TypeOK, CashInv, NEW e \in Events, Fresh(e),
         durable' = durable \cup {e}, cash' = cash + Flow(e)
  PROVE  CashInv'
<1>1. e \notin durable
  BY DEF Fresh, SameId
<1>2. durable \in SUBSET Events /\ IsFiniteSet(durable) /\ cash = StartingCash + Flows(durable)
  BY DEF TypeOK, CashInv, CashIsAccounted, Flows
<1>3. IsFiniteSet(durable')
  BY <1>2, FS_AddElement
<1>4. Flows(durable') = Flows(durable) + Flow(e)
  BY <1>1, <1>2, FlowsAdd
<1>5. Flows(durable) \in Int /\ Flow(e) \in Int /\ StartingCash \in Int
  <2>1. Flows(durable) \in Int
    BY <1>2, FlowsOfChosen
  <2>2. Flow(e) \in Int
    BY FlowIsInt
  <2> QED  BY <2>1, <2>2
<1>6. cash' = StartingCash + Flows(durable')
  BY <1>2, <1>4, <1>5
<1> QED
  BY <1>3, <1>6 DEF CashInv, CashIsAccounted, Flows

LEMMA InitCash == Init => CashInv
<1>1. Flows({}) = 0 /\ IsFiniteSet({})
  BY FS_EmptySet, FlowsOfChosen
<1> QED
  BY <1>1 DEF Init, CashInv, CashIsAccounted, Flows

LEMMA StepCash == TypeOK /\ CashInv /\ [Next]_vars => CashInv'
<1> SUFFICES ASSUME TypeOK, CashInv, [Next]_vars PROVE CashInv'
  OBVIOUS
<1> USE EventsAssumption
<1>0. cash \in Int
  BY DEF TypeOK
<1>1. ASSUME NEW at \in lastEventAt..MaxTime, NEW o \in Orders,
             NEW debit \in Debits, NEW risk \in Risks, Reserve(o, debit, risk, at)
      PROVE  CashInv'
  <2> DEFINE e == [type |-> "RESERVE", order |-> o, at |-> at, debit |-> debit, risk |-> risk]
  <2>1. at \in Nat /\ debit \in Nat /\ risk \in Nat
    BY DEF TypeOK
  <2>2. e \in Events /\ Flow(e) = 0
    BY <2>1 DEF Events, Flow
  <2>3. Fresh(e) /\ durable' = durable \cup {e} /\ cash' = cash
    BY <1>1 DEF Reserve
  <2> HIDE DEF e
  <2>4. cash' = cash + Flow(e)
    BY <1>0, <2>2, <2>3
  <2> QED  BY <2>2, <2>3, <2>4, AppliedOnce
<1>2. ASSUME NEW at \in lastEventAt..MaxTime, NEW o \in Orders, Release(o, at)
      PROVE  CashInv'
  <2> DEFINE e == [type |-> "RELEASE", order |-> o, at |-> at]
  <2>1. at \in Nat
    BY DEF TypeOK
  <2>2. e \in Events /\ Flow(e) = 0
    BY <2>1 DEF Events, Flow
  <2>3. Fresh(e) /\ durable' = durable \cup {e} /\ cash' = cash
    BY <1>2 DEF Release
  <2> HIDE DEF e
  <2>4. cash' = cash + Flow(e)
    BY <1>0, <2>2, <2>3
  <2> QED  BY <2>2, <2>3, <2>4, AppliedOnce
<1>3. ASSUME NEW at \in lastEventAt..MaxTime, NEW o \in Orders,
             NEW shares \in Shares, NEW price \in Prices, NEW fee \in Fees, NEW stop \in Prices,
             Buy(o, shares, price, fee, stop, at)
      PROVE  CashInv'
  <2> DEFINE e == [type |-> "BUY", order |-> o, at |-> at,
                   shares |-> shares, price |-> price, fee |-> fee, stop |-> stop]
  <2>1. /\ shares \in Nat /\ price \in Nat /\ fee \in Nat /\ stop \in Nat /\ at \in Nat
        /\ price * shares + fee \in Int
    BY DEF TypeOK
  <2>2. e \in Events /\ Flow(e) = -(price * shares + fee)
    BY <2>1 DEF Events, Flow
  <2>3. Fresh(e) /\ durable' = durable \cup {e} /\ cash' = cash - (price * shares + fee)
    BY <1>3 DEF Buy
  <2> HIDE DEF e
  <2>4. cash' = cash + Flow(e)
    BY <1>0, <2>1, <2>2, <2>3
  <2> QED  BY <2>2, <2>3, <2>4, AppliedOnce
<1>4. ASSUME NEW at \in lastEventAt..MaxTime, NEW o \in Orders,
             NEW shares \in Shares, NEW price \in Prices, NEW fee \in Fees,
             Sell(o, shares, price, fee, at)
      PROVE  CashInv'
  <2> DEFINE e == [type |-> "SELL", order |-> o, at |-> at,
                   shares |-> shares, price |-> price, fee |-> fee]
  <2>1. /\ shares \in Nat /\ price \in Nat /\ fee \in Nat /\ at \in Nat
        /\ price * shares - fee \in Int
    BY DEF TypeOK
  <2>2. e \in Events /\ Flow(e) = price * shares - fee
    BY <2>1 DEF Events, Flow
  <2>3. Fresh(e) /\ durable' = durable \cup {e} /\ cash' = cash + (price * shares - fee)
    BY <1>4 DEF Sell
  <2> HIDE DEF e
  <2>4. cash' = cash + Flow(e)
    BY <2>2, <2>3
  <2> QED  BY <2>2, <2>3, <2>4, AppliedOnce
<1>5. ASSUME UNCHANGED <<cash, durable>>
      PROVE  CashInv'
  BY <1>5 DEF CashInv, CashIsAccounted
<1>6. ASSUME NEW at, NEW i, NEW bid, Mark(i, bid, at)
      PROVE  CashInv'
  BY <1>5, <1>6 DEF Mark
<1>7. ASSUME NEW at, Session(at)
      PROVE  CashInv'
  BY <1>5, <1>7 DEF Session
<1>8. CASE UNCHANGED vars
  BY <1>5, <1>8 DEF vars
<1> QED
  BY <1>1, <1>2, <1>3, <1>4, <1>6, <1>7, <1>8 DEF Next

\* The applied events account for the cash to the last unit, whatever was sent
\* twice: each one's flow is in it once, and nothing else is.
THEOREM CashIsTheSumOfItsEvents == Spec => []CashIsAccounted
<1>1. Spec => [](TypeOK /\ CashInv)
  BY InitTypes, StepTypes, InitCash, StepCash, PTL DEF Spec
<1>2. CashInv => CashIsAccounted
  BY DEF CashInv
<1> QED
  BY <1>1, <1>2, PTL
----------------------------------------------------------------------------
(* The promise of OrderLife *)

\* What the log says of an order: no release and no purchase but of what was
\* reserved, never both; the snapshot holds the reservations that are left.
LogMatches(o) ==
  /\ o \in Reserved <=>
       Applied("RESERVE", o) /\ ~Applied("RELEASE", o) /\ ~Applied("BUY", o)
  /\ Applied("RELEASE", o) \/ Applied("BUY", o) => Applied("RESERVE", o)
  /\ ~(Applied("RELEASE", o) /\ Applied("BUY", o))
  /\ o \in Owned => Applied("BUY", o)

LogInv == \A o \in Orders : LogMatches(o)

\* How one event may move one order, in the log and in the snapshot.
LogKeeps(o, types) == \A t \in types : Applied(t, o)' <=> Applied(t, o)

Reserves(o) ==
  /\ ~Applied("RESERVE", o) /\ Applied("RESERVE", o)' /\ LogKeeps(o, {"RELEASE", "BUY"})
  /\ o \notin Reserved /\ o \in Reserved' /\ (o \in Owned' <=> o \in Owned)

Releases(o) ==
  /\ Applied("RELEASE", o)' /\ LogKeeps(o, {"RESERVE", "BUY"})
  /\ o \in Reserved /\ o \notin Reserved' /\ (o \in Owned' <=> o \in Owned)

Buys(o) ==
  /\ Applied("BUY", o)' /\ LogKeeps(o, {"RESERVE", "RELEASE"})
  /\ o \in Reserved /\ o \notin Reserved' /\ o \notin Owned /\ o \in Owned'

Stays(o) ==
  /\ LogKeeps(o, {"RESERVE", "RELEASE", "BUY"})
  /\ o \in Reserved' <=> o \in Reserved
  /\ o \in Owned' => o \in Owned

OrderMoves(o) == Reserves(o) \/ Releases(o) \/ Buys(o) \/ Stays(o)

\* An event is in the log of its own order and type from now on.
LEMMA LogGrows ==
  ASSUME NEW e, durable' = durable \cup {e}, NEW t, NEW o
  PROVE  Applied(t, o)' <=> Applied(t, o) \/ (e.type = t /\ e.order = o)
BY DEF Applied

\* Only its own order moves with an event of a reservation.
LEMMA ReserveMoves ==
  ASSUME TypeOK, NEW o \in Orders, NEW debit \in Debits, NEW risk \in Risks, NEW at,
         Reserve(o, debit, risk, at), NEW x \in Orders
  PROVE  OrderMoves(x)
<1> DEFINE e == [type |-> "RESERVE", order |-> o, at |-> at, debit |-> debit, risk |-> risk]
<1>1. /\ durable' = durable \cup {e} /\ positions' = positions
      /\ reservations' = [reservations EXCEPT ![o] = [debit |-> debit, risk |-> risk]]
      /\ \A d \in durable : ~SameId(d, e)
      /\ o \notin Reserved
  BY DEF Reserve, Fresh
<1>2. e.type = "RESERVE" /\ e.order = o
  OBVIOUS
<1> HIDE DEF e
<1>3. \A t : Applied(t, x)' <=> Applied(t, x) \/ (t = "RESERVE" /\ x = o)
  BY <1>1, <1>2, LogGrows
<1>4. ~Applied("RESERVE", o)
  BY <1>1, <1>2 DEF Applied, SameId
<1>5. x \in Owned' <=> x \in Owned
  BY <1>1 DEF Owned
<1>6. CASE x = o
  <2>1. reservations'[o] = [debit |-> debit, risk |-> risk]
    BY <1>1 DEF TypeOK
  <2>2. [debit |-> debit, risk |-> risk].debit # NoReservation.debit
    BY EventsAssumption DEF NoReservation
  <2>3. o \in Reserved'
    BY <2>1, <2>2 DEF Reserved
  <2> QED  BY <1>1, <1>3, <1>4, <1>5, <1>6, <2>3 DEF OrderMoves, Reserves, LogKeeps
<1>7. CASE x # o
  <2>1. x \in Reserved' <=> x \in Reserved
    BY <1>1, <1>7 DEF TypeOK, Reserved
  <2> QED  BY <1>3, <1>5, <1>7, <2>1 DEF OrderMoves, Stays, LogKeeps
<1> QED  BY <1>6, <1>7

LEMMA ReleaseMoves ==
  ASSUME TypeOK, NEW o \in Orders, NEW at, Release(o, at), NEW x \in Orders
  PROVE  OrderMoves(x)
<1> DEFINE e == [type |-> "RELEASE", order |-> o, at |-> at]
<1>1. /\ durable' = durable \cup {e} /\ positions' = positions
      /\ reservations' = [reservations EXCEPT ![o] = NoReservation]
      /\ o \in Reserved
  BY DEF Release
<1>2. e.type = "RELEASE" /\ e.order = o
  OBVIOUS
<1> HIDE DEF e
<1>3. \A t : Applied(t, x)' <=> Applied(t, x) \/ (t = "RELEASE" /\ x = o)
  BY <1>1, <1>2, LogGrows
<1>4. x \in Owned' <=> x \in Owned
  BY <1>1 DEF Owned
<1>5. x \in Reserved' <=> x \in Reserved /\ x # o
  BY <1>1 DEF TypeOK, Reserved
<1>6. CASE x = o
  BY <1>1, <1>3, <1>4, <1>5, <1>6 DEF OrderMoves, Releases, LogKeeps
<1>7. CASE x # o
  BY <1>3, <1>4, <1>5, <1>7 DEF OrderMoves, Stays, LogKeeps
<1> QED  BY <1>6, <1>7

LEMMA BuyMoves ==
  ASSUME TypeOK, NEW o \in Orders, NEW shares \in Shares, NEW price, NEW fee, NEW stop, NEW at,
         Buy(o, shares, price, fee, stop, at), NEW x \in Orders
  PROVE  OrderMoves(x)
<1> DEFINE e == [type |-> "BUY", order |-> o, at |-> at,
                 shares |-> shares, price |-> price, fee |-> fee, stop |-> stop]
           p == [shares |-> shares, basis |-> price * shares + fee, stop |-> stop,
                 mark |-> price, markedAt |-> at]
<1>1. /\ durable' = durable \cup {e}
      /\ positions' = [positions EXCEPT ![o] = p]
      /\ reservations' = [reservations EXCEPT ![o] = NoReservation]
      /\ o \in Reserved /\ o \notin Owned
  BY DEF Buy
<1>2. e.type = "BUY" /\ e.order = o /\ p.shares = shares
  OBVIOUS
<1> HIDE DEF e, p
<1>3. \A t : Applied(t, x)' <=> Applied(t, x) \/ (t = "BUY" /\ x = o)
  BY <1>1, <1>2, LogGrows
<1>4. shares > 0
  BY EventsAssumption
<1>5. x \in Owned' <=> x \in Owned \/ x = o
  BY <1>1, <1>2, <1>4 DEF TypeOK, Owned
<1>6. x \in Reserved' <=> x \in Reserved /\ x # o
  BY <1>1 DEF TypeOK, Reserved
<1>7. CASE x = o
  BY <1>1, <1>3, <1>5, <1>6, <1>7 DEF OrderMoves, Buys, LogKeeps
<1>8. CASE x # o
  BY <1>3, <1>5, <1>6, <1>8 DEF OrderMoves, Stays, LogKeeps
<1> QED  BY <1>7, <1>8

LEMMA SellMoves ==
  ASSUME TypeOK, NEW o \in Orders, NEW shares, NEW price, NEW fee, NEW at,
         Sell(o, shares, price, fee, at), NEW x \in Orders
  PROVE  OrderMoves(x)
<1> DEFINE e == [type |-> "SELL", order |-> o, at |-> at,
                 shares |-> shares, price |-> price, fee |-> fee]
<1>1. /\ durable' = durable \cup {e} /\ reservations' = reservations
      /\ positions' = [positions EXCEPT ![o] = Rest(positions[o], shares)]
      /\ o \in Owned
  BY DEF Sell, Sellable
<1>2. e.type = "SELL"
  OBVIOUS
<1> HIDE DEF e
<1>3. \A t \in {"RESERVE", "RELEASE", "BUY"} : Applied(t, x)' <=> Applied(t, x)
  BY <1>1, <1>2, LogGrows
<1>4. x \in Owned' => x \in Owned
  BY <1>1 DEF TypeOK, Owned
<1>5. x \in Reserved' <=> x \in Reserved
  BY <1>1 DEF Reserved
<1> QED  BY <1>3, <1>4, <1>5 DEF OrderMoves, Stays, LogKeeps

LEMMA MarkMoves ==
  ASSUME NEW i, NEW bid, NEW at, Mark(i, bid, at), NEW x \in Orders
  PROVE  OrderMoves(x)
<1>1. /\ durable' = durable /\ reservations' = reservations
      /\ positions'[x] = IF x \in Owned /\ InstrumentOf[x] = i
                         THEN [positions[x] EXCEPT !.mark = bid, !.markedAt = at] ELSE positions[x]
  BY DEF Mark
<1>2. \A t : Applied(t, x)' <=> Applied(t, x)
  BY <1>1 DEF Applied
<1>3. (x \in Owned' => x \in Owned) /\ (x \in Reserved' <=> x \in Reserved)
  BY <1>1 DEF Owned, Reserved
<1> QED  BY <1>2, <1>3 DEF OrderMoves, Stays, LogKeeps

\* What leaves the log, the reservations and the positions alone moves none.
LEMMA OthersStay ==
  ASSUME UNCHANGED <<durable, reservations, positions>>, NEW x \in Orders
  PROVE  OrderMoves(x)
BY DEF OrderMoves, Stays, LogKeeps, Applied, Owned, Reserved

\* Every event moves an order in one of these ways, and time forward.
LEMMA EventsMove ==
  ASSUME TypeOK, [Next]_vars
  PROVE  lastEventAt' >= lastEventAt /\ \A x \in Orders : OrderMoves(x)
<1>0. lastEventAt \in Int
  BY AccountAssumption DEF TypeOK
<1>1. lastEventAt' >= lastEventAt
  <2>1. ASSUME NEW at \in lastEventAt..MaxTime, lastEventAt' = at
        PROVE  lastEventAt' >= lastEventAt
    BY <1>0, <2>1, AccountAssumption
  <2>2. CASE UNCHANGED vars
    BY <1>0, <2>2 DEF vars
  <2>3. CASE Next
    <3>1. PICK at \in lastEventAt..MaxTime :
            \/ \E o \in Orders :
                 \/ \E debit \in Debits, risk \in Risks : Reserve(o, debit, risk, at)
                 \/ Release(o, at)
                 \/ \E shares \in Shares, price \in Prices, fee \in Fees :
                      \/ \E stop \in Prices : Buy(o, shares, price, fee, stop, at)
                      \/ Sell(o, shares, price, fee, at)
                 \/ \E bid \in Prices : Mark(InstrumentOf[o], bid, at)
            \/ Session(at)
      BY <2>3 DEF Next
    <3>2. /\ \A o, debit, risk : Reserve(o, debit, risk, at) => lastEventAt' = at
          /\ \A o : Release(o, at) => lastEventAt' = at
          /\ Session(at) => lastEventAt' = at
      BY DEF Reserve, Release, Session
    <3>3. \A o, shares, price, fee, stop :
            Buy(o, shares, price, fee, stop, at) => lastEventAt' = at
      BY DEF Buy
    <3>4. \A o, shares, price, fee : Sell(o, shares, price, fee, at) => lastEventAt' = at
      BY DEF Sell
    <3>5. \A i, bid : Mark(i, bid, at) => lastEventAt' = at
      BY DEF Mark
    <3>6. lastEventAt' = at
      BY <3>1, <3>2, <3>3, <3>4, <3>5
    <3> QED  BY <2>1, <3>6
  <2> QED  BY <2>2, <2>3
<1>2. ASSUME NEW x \in Orders PROVE OrderMoves(x)
  <2>1. ASSUME NEW at, Session(at) PROVE OrderMoves(x)
    BY <2>1, OthersStay DEF Session
  <2>2. CASE UNCHANGED vars
    BY <2>2, OthersStay DEF vars
  <2> QED
    BY <2>1, <2>2, ReserveMoves, ReleaseMoves, BuyMoves, SellMoves, MarkMoves DEF Next
<1> QED  BY <1>1, <1>2

\* The log and the snapshot keep matching, and the order takes a step of its
\* life or none.
LEMMA MovesMatch ==
  ASSUME NEW o \in Orders, LogMatches(o), OrderMoves(o)
  PROVE  LogMatches(o)'
BY DEF LogMatches, OrderMoves, Reserves, Releases, Buys, Stays, LogKeeps

\* The stage the log gives an order.
StageMatches(o) ==
  /\ stageOf[o] = "none" <=> ~Applied("RESERVE", o)
  /\ stageOf[o] = "reserved" <=> o \in Reserved
  /\ stageOf[o] = "released" <=> Applied("RELEASE", o)
  /\ stageOf[o] = "owned" <=> o \in Owned
  /\ stageOf[o] = "sold" <=> Applied("BUY", o) /\ o \notin Owned
  /\ stageOf[o] \in Life!Stages

LEMMA StagesByLog == \A o \in Orders : LogMatches(o) => StageMatches(o)
<1> SUFFICES ASSUME NEW o \in Orders, LogMatches(o) PROVE StageMatches(o)
  OBVIOUS
<1>1. stageOf[o] = CASE Applied("BUY", o)     -> IF o \in Owned THEN "owned" ELSE "sold"
                     [] Applied("RELEASE", o) -> "released"
                     [] OTHER -> IF Applied("RESERVE", o) THEN "reserved" ELSE "none"
  BY DEF stageOf
<1> QED  BY <1>1 DEF StageMatches, LogMatches, Life!Stages

LEMMA StagesByLogAfter == (\A o \in Orders : LogMatches(o) => StageMatches(o))'
  BY StagesByLog, PTL

LEMMA OrderLives ==
  ASSUME NEW o \in Orders, LogMatches(o), LogMatches(o)', OrderMoves(o)
  PROVE  Life!OrderStep(o) \/ Life!Rest(o)
<1>1. StageMatches(o) /\ StageMatches(o)'
  BY StagesByLog, StagesByLogAfter
<1> USE DEF StageMatches
<1> HIDE DEF stageOf
<1>3. CASE Reserves(o)
  <2>1. stageOf[o] = "none" /\ stageOf'[o] = "reserved"
    BY <1>1, <1>3 DEF Reserves
  <2> QED  BY <1>3, <2>1 DEF Reserves, Life!OrderStep, Life!Reserve
<1>4. CASE Releases(o)
  <2>1. stageOf[o] = "reserved" /\ stageOf'[o] = "released"
    BY <1>1, <1>4 DEF Releases
  <2> QED  BY <1>4, <2>1 DEF Releases, Life!OrderStep, Life!Release
<1>5. CASE Buys(o)
  <2>1. stageOf[o] = "reserved" /\ stageOf'[o] = "owned"
    BY <1>1, <1>5 DEF Buys
  <2> QED  BY <1>5, <2>1 DEF Buys, Life!OrderStep, Life!Buy
<1>6. CASE Stays(o) /\ (o \in Owned' <=> o \in Owned)
  <2>1. \A s \in Life!Stages : stageOf'[o] = s <=> stageOf[o] = s
    BY <1>1, <1>6 DEF Stays, LogKeeps, Life!Stages
  <2> QED  BY <1>1, <1>6, <2>1 DEF Stays, Life!Rest
<1>7. CASE Stays(o) /\ o \in Owned /\ o \notin Owned'
  <2>1. stageOf[o] = "owned" /\ stageOf'[o] = "sold" /\ o \notin Reserved /\ o \notin Reserved'
    BY <1>1, <1>7 DEF Stays, LogKeeps, LogMatches
  <2> QED  BY <2>1 DEF Life!OrderStep, Life!SellOut
<1> QED  BY <1>3, <1>4, <1>5, <1>6, <1>7 DEF OrderMoves, Stays

LEMMA InitMatches == Init => LogInv /\ Life!Init
<1> SUFFICES ASSUME Init PROVE LogInv /\ Life!Init
  OBVIOUS
<1>1. Reserved = {} /\ Owned = {} /\ \A t, o : ~Applied(t, o)
  BY DEF Init, Reserved, Owned, Applied, NoPosition
<1>2. stageOf = [o \in Orders |-> "none"]
  BY <1>1 DEF stageOf
<1> QED  BY <1>1, <1>2 DEF Init, LogInv, LogMatches, Life!Init

LEMMA LifeStep ==
  ASSUME TypeOK, LogInv, [Next]_vars
  PROVE  LogInv' /\ Life!Next
<1>1. lastEventAt' >= lastEventAt /\ \A o \in Orders : OrderMoves(o)
  BY EventsMove
<1>2. LogInv'
  BY <1>1, MovesMatch DEF LogInv
<1>3. \A o \in Orders : Life!OrderStep(o) \/ Life!Rest(o)
  BY <1>1, <1>2, OrderLives DEF LogInv
<1>4. stageOf' \in [Orders -> Life!Stages]
  <2>1. ASSUME NEW o \in Orders PROVE stageOf'[o] \in Life!Stages
    BY <1>2, StagesByLogAfter DEF LogInv, StageMatches
  <2>2. stageOf' = [o \in Orders |-> stageOf'[o]]
    BY DEF stageOf
  <2> HIDE DEF stageOf
  <2> QED  BY <2>1, <2>2
<1>5. Reserved' \subseteq Orders
  BY DEF Reserved
<1> QED  BY <1>1, <1>2, <1>3, <1>4, <1>5 DEF Life!Next

\* The log of durable ids and the snapshot of the account tell one story of each
\* order, the one OrderLife promises, whatever is sent again and whatever the
\* prices do to the account.
THEOREM AccountLives == Spec => ImplementsOrderLife
<1>1. Spec => [](TypeOK /\ LogInv)
  BY InitTypes, StepTypes, InitMatches, LifeStep, PTL DEF Spec
<1>2. Init => Life!Init
  BY InitMatches
<1>3. TypeOK /\ LogInv /\ [Next]_vars => [Life!Next]_(Life!lifeVars)
  BY LifeStep
<1> QED
  BY <1>1, <1>2, <1>3, PTL DEF Spec, ImplementsOrderLife, Life!Spec
=============================================================================
