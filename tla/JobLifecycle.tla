---------------------------- MODULE JobLifecycle ----------------------------
(***************************************************************************)
(* What the research-job queue promises to whoever submitted a job, with   *)
(* no mention of workers, leases or statements: a job waits, is started at *)
(* most Budget times, and is settled once; a job that succeeded publishes  *)
(* the result of its last start.  Several jobs may move in one step, as    *)
(* the lease sweep moves them.                                             *)
(***************************************************************************)
EXTENDS Naturals

CONSTANTS Jobs, Budget

VARIABLES phase, starts, stopAsked, published

jobVars == <<phase, starts, stopAsked, published>>

Outcomes == {"succeeded", "failed", "cancelled", "interrupted"}

Init ==
  /\ phase = [j \in Jobs |-> "waiting"]
  /\ starts = [j \in Jobs |-> 0]
  /\ stopAsked = [j \in Jobs |-> FALSE]
  /\ published = [j \in Jobs |-> 0]

\* A waiting job is started; an active one may be taken over.
Begin(j) ==
  /\ phase[j] \in {"waiting", "active"} /\ starts[j] < Budget
  /\ phase'[j] = "active" /\ starts'[j] = starts[j] + 1
  /\ stopAsked'[j] = stopAsked[j] /\ published'[j] = published[j]

\* Only a job that can be started again is put back.
PutBack(j) ==
  /\ phase[j] = "active" /\ starts[j] < Budget
  /\ phase'[j] = "waiting" /\ starts'[j] = starts[j]
  /\ stopAsked'[j] = stopAsked[j] /\ published'[j] = published[j]

Succeed(j) ==
  /\ phase[j] = "active"
  /\ phase'[j] = "succeeded" /\ published'[j] = starts[j]
  /\ starts'[j] = starts[j] /\ stopAsked'[j] = stopAsked[j]

\* A job is cancelled only when someone asked, and interrupted only when its
\* starts are used up.
Abandon(j) ==
  /\ phase[j] = "active"
  /\ \/ phase'[j] = "failed"
     \/ phase'[j] = "cancelled" /\ stopAsked[j] = TRUE
     \/ phase'[j] = "interrupted" /\ starts[j] = Budget
  /\ starts'[j] = starts[j]
  /\ stopAsked'[j] = stopAsked[j] /\ published'[j] = published[j]

AskStop(j) ==
  /\ phase[j] \in {"waiting", "active"}
  /\ phase'[j] = IF phase[j] = "waiting" THEN "cancelled" ELSE "active"
  /\ stopAsked'[j] = TRUE
  /\ starts'[j] = starts[j] /\ published'[j] = published[j]

Rest(j) ==
  /\ phase'[j] = phase[j] /\ starts'[j] = starts[j]
  /\ stopAsked'[j] = stopAsked[j] /\ published'[j] = published[j]

JobStep(j) == Begin(j) \/ PutBack(j) \/ Succeed(j) \/ Abandon(j) \/ AskStop(j)

Next == \A j \in Jobs : JobStep(j) \/ Rest(j)

Spec == Init /\ [][Next]_jobVars
=============================================================================
