--------------------------- MODULE MCFundedLedger ---------------------------
(* Two orders of one instrument, prices on both sides of the stops and a    *)
(* rollover with a position that its marks have carried past the limit.     *)
EXTENDS FundedLedger

OneInstrument == [o \in Orders |-> "AAA"]
=============================================================================
