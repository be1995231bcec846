------------------------------ MODULE OrderLife ------------------------------
(***************************************************************************)
(* What a funded run promises of its orders, with no mention of facts,     *)
(* transactions, amounts or crashes: an order reserves money once, gives   *)
(* the reservation back or turns it into a position, and a position is     *)
(* sold for good. The reservations are those of the orders that wait, and  *)
(* the account's last event never goes back. Several orders may move in    *)
(* one step, as a quote or the close of the session moves them.            *)
(***************************************************************************)
EXTENDS Integers

CONSTANT Orders

VARIABLES
  stage,  \* how far each order is
  held,   \* the orders with a reservation
  latest  \* when the account last changed

lifeVars == <<stage, held, latest>>

Stages == {"none", "reserved", "released", "owned", "sold"}

Init ==
  /\ stage = [o \in Orders |-> "none"]
  /\ held = {} /\ latest = 0

Reserve(o) ==
  /\ stage[o] = "none" /\ stage'[o] = "reserved"
  /\ o \notin held /\ o \in held'

Release(o) ==
  /\ stage[o] = "reserved" /\ stage'[o] = "released"
  /\ o \in held /\ o \notin held'

Buy(o) ==
  /\ stage[o] = "reserved" /\ stage'[o] = "owned"
  /\ o \in held /\ o \notin held'

SellOut(o) ==
  /\ stage[o] = "owned" /\ stage'[o] = "sold"
  /\ o \notin held /\ o \notin held'

Rest(o) ==
  /\ stage'[o] = stage[o]
  /\ o \in held' <=> o \in held

OrderStep(o) == Reserve(o) \/ Release(o) \/ Buy(o) \/ SellOut(o)

Next ==
  /\ stage' \in [Orders -> Stages] /\ held' \subseteq Orders
  /\ latest' >= latest
  /\ \A o \in Orders : OrderStep(o) \/ Rest(o)

Spec == Init /\ [][Next]_lifeVars
=============================================================================
