--------------------------- MODULE MCRequestBudget --------------------------
(* Two processes; seconds of 3 instants and hours of 6, few calls of each.  *)
EXTENDS RequestBudget, TLC

CONSTANTS p1, p2

TwoProcesses == {p1, p2}
Call(t, discovery) == [at |-> t, discovery |-> discovery]

\* Nothing was called before, or an hour's calls were, up to the first instant.
Usages == {{}, {Call(1, FALSE), Call(2, TRUE), Call(4, FALSE)}}
Symmetry == Permutations(TwoProcesses)
ResetTimes == {0, 2}
=============================================================================
