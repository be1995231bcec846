--------------------------- MODULE MCResearchJobs ---------------------------
(* Small instances of ResearchJobs for TLC.                                *)
EXTENDS ResearchJobs, TLC

CONSTANTS j1, w1, w2

NoJobs     == {}
OneJob     == {j1}
OneWorker  == {w1}
TwoWorkers == {w1, w2}

\* The two worker slots are interchangeable (used by safety runs only).
WorkerSymmetry == Permutations(TwoWorkers)
=============================================================================
