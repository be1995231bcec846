--------------------------- MODULE MCFundedInbox ---------------------------
(* One signal, three instants, one invalidation of its setup and one death *)
(* of the process; a fourth instant for the repeated invalidation.         *)
EXTENDS FundedInbox

OneOrder == {1}
=============================================================================
