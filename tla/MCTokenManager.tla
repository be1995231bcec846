--------------------------- MODULE MCTokenManager ---------------------------
(* Instances of TokenManager: the API with two callers, and the API beside  *)
(* a maintenance command that shares its row.                               *)
EXTENDS TokenManager

CONSTANTS api, command, c1, c2, c3

OneProcess == {api}
TwoCallers == {c1, c2}
CallersOfApi == [c \in TwoCallers |-> api]

TwoProcesses == {api, command}
CallerEach == {c1, c3}
CallerOfEach == [c \in CallerEach |-> IF c = c3 THEN command ELSE api]

=============================================================================
