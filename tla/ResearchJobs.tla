---------------------------- MODULE ResearchJobs ----------------------------
(***************************************************************************)
(* The durable research-job queue (research-jobs/research-job-repository.ts)*)
(* and the worker processes that drain it (worker/research-worker.ts with  *)
(* the handlers under worker/handlers/).                                   *)
(*                                                                         *)
(* A column of the research_job table is a function on Jobs; a statement   *)
(* sent to PostgreSQL is one atomic step.  now() is abstracted: a lease is *)
(* NONE (NULL), LIVE (lease_expires_at >= now()) or EXPIRED.               *)
(* A worker process is named by its ownerId, fresh at every start: here    *)
(* the pair of a host slot and the number of its restarts.                 *)
(***************************************************************************)
EXTENDS Naturals

CONSTANTS
  Jobs,          \* rows of research_job
  EvidenceJobs,  \* jobs whose handler writes under lockEvidenceLease
                 \* (coverage); the others write unfenced result rows
  ReportingJobs, \* jobs whose handler reports a cancellation it saw as a
                 \* CategorizedError (coverage, diagnostics, strategy study)
  Workers,       \* host slots, each running one worker process
  NoOwner,       \* NULL in lease_owner
  NoJob,         \* the worker's loop holds no claimed job
  MaxAttempts,   \* the max_attempts column
  MaxRestarts,   \* bound: restarts of one worker slot
  MarketTrades   \* FALSE where a run leaves the market closed throughout

ASSUME MaxAttemptsAssumption == MaxAttempts \in Nat \ {0}
ASSUME MaxRestartsAssumption == MaxRestarts \in Nat
ASSUME MarketTradesAssumption == MarketTrades \in BOOLEAN
ASSUME KindsAssumption == EvidenceJobs \subseteq Jobs /\ ReportingJobs \subseteq Jobs
ASSUME NoJobAssumption == NoJob \notin Jobs
ASSUME NoOwnerAssumption == NoOwner \notin Workers \X Nat

VARIABLES
  \* columns of research_job
  status, leaseOwner, lease, attemptCount, cancellationRequested,
  errorCategory, resultRef,
  written,       \* <<job, attempt>>: the attempt committed its result rows
  \* one worker process: its loop, the claimed job as read by the claim,
  \* the error category being recorded, and the lease sweep of its timer
  pc, current, attempt, category, sweep, restarts,
  claimsPaused,  \* regularSessionOpen(...): a market session is open
  askedAt        \* history: attempts started when cancellation was first asked

rowVars == <<status, leaseOwner, lease, attemptCount, cancellationRequested,
             errorCategory, resultRef>>
loopVars == <<pc, current, attempt, category>>
vars == <<rowVars, written, loopVars, sweep, restarts, claimsPaused, askedAt>>

Active     == {"RUNNING", "CANCELLING"}
Terminal   == {"SUCCEEDED", "FAILED", "CANCELLED", "INTERRUPTED"}
Status     == {"QUEUED"} \cup Active \cup Terminal
HandlerCategories == {"VALIDATION", "HISTORY_UNAVAILABLE", "UPSTREAM_ENGINE",
                      "UNKNOWN"}
Categories == HandlerCategories \cup {"NONE", "CANCELLED", "LEASE_EXPIRED"}
Retryable  == {"UPSTREAM_ENGINE", "LEASE_EXPIRED", "UNKNOWN"}
Attempts   == 0 .. MaxAttempts
Never      == MaxAttempts + 1
Loop       == {"idle", "running", "completing", "cancelling", "failing",
               "requeue", "failed"}

\* Mutant: the ownerId does not tell processes apart (a fixed host name).
SharedOwnerId(w) == <<CHOOSE v \in Workers : TRUE, 0>>

OwnerId(w) == <<w, restarts[w]>>
Owns(w, j) == leaseOwner[j] = OwnerId(w)

TypeOK ==
  /\ status \in [Jobs -> Status]
  /\ leaseOwner \in [Jobs -> (Workers \X Nat) \cup {NoOwner}]
  /\ lease \in [Jobs -> {"NONE", "LIVE", "EXPIRED"}]
  /\ attemptCount \in [Jobs -> Attempts]
  /\ cancellationRequested \in [Jobs -> BOOLEAN]
  /\ errorCategory \in [Jobs -> Categories]
  /\ resultRef \in [Jobs -> Attempts]
  /\ written \subseteq Jobs \X Attempts
  /\ pc \in [Workers -> Loop]
  /\ current \in [Workers -> Jobs \cup {NoJob}]
  /\ attempt \in [Workers -> Attempts]
  /\ category \in [Workers -> Categories]
  /\ sweep \in [Workers -> {"idle", "requeued"}]
  /\ restarts \in [Workers -> Nat]
  /\ claimsPaused \in BOOLEAN
  /\ askedAt \in [Jobs -> Attempts \cup {Never}]

Init ==
  /\ status = [j \in Jobs |-> "QUEUED"]
  /\ leaseOwner = [j \in Jobs |-> NoOwner]
  /\ lease = [j \in Jobs |-> "NONE"]
  /\ attemptCount = [j \in Jobs |-> 0]
  /\ cancellationRequested = [j \in Jobs |-> FALSE]
  /\ errorCategory = [j \in Jobs |-> "NONE"]
  /\ resultRef = [j \in Jobs |-> 0]
  /\ written = {}
  /\ pc = [w \in Workers |-> "idle"]
  /\ current = [w \in Workers |-> NoJob]
  /\ attempt = [w \in Workers |-> 0]
  /\ category = [w \in Workers |-> "NONE"]
  /\ sweep = [w \in Workers |-> "idle"]
  /\ restarts = [w \in Workers |-> 0]
  /\ claimsPaused = FALSE
  /\ askedAt = [j \in Jobs |-> Never]

-----------------------------------------------------------------------------
(* The worker loop between two statements.                                 *)

Goto(w, label) == pc' = [pc EXCEPT ![w] = label]

\* execute() returns: the loop forgets the claimed job.
LeaveJob(w) ==
  /\ Goto(w, "idle")
  /\ current' = [current EXCEPT ![w] = NoJob]
  /\ attempt' = [attempt EXCEPT ![w] = 0]
  /\ category' = [category EXCEPT ![w] = "NONE"]

\* execute() catches an error that is neither LeaseLostError nor
\* CancelledError and is about to call repository.fail with its category.
CatchFailure(w, c) ==
  /\ Goto(w, "failing")
  /\ category' = [category EXCEPT ![w] = c]
  /\ UNCHANGED <<current, attempt>>

-----------------------------------------------------------------------------
(* claimNext                                                               *)

\* Mutant: attempt_count < max_attempts is missing from claimNext.
ClaimableForEver(j) ==
  status[j] = "QUEUED" \/ (status[j] \in Active /\ lease[j] = "EXPIRED")

Claimable(j) ==
  /\ attemptCount[j] < MaxAttempts
  /\ \/ status[j] = "QUEUED"
     \/ status[j] \in Active /\ lease[j] = "EXPIRED"

\* The UPDATE of claimNext; any claimable job may be the candidate.
ClaimRow(w, j) ==
  /\ status' = [status EXCEPT ![j] =
                  IF @ = "CANCELLING" THEN "CANCELLING" ELSE "RUNNING"]
  /\ leaseOwner' = [leaseOwner EXCEPT ![j] = OwnerId(w)]
  /\ lease' = [lease EXCEPT ![j] = "LIVE"]
  /\ attemptCount' = [attemptCount EXCEPT ![j] = @ + 1]
  /\ UNCHANGED <<cancellationRequested, errorCategory, resultRef>>

\* Mutant: execute() calls the handler whatever the claimed flag says.
ClaimIgnoringFlag(w, j) ==
  /\ pc[w] = "idle" /\ ~claimsPaused /\ Claimable(j)
  /\ ClaimRow(w, j)
  /\ Goto(w, "running")
  /\ current' = [current EXCEPT ![w] = j]
  /\ attempt' = [attempt EXCEPT ![w] = attemptCount[j] + 1]
  /\ UNCHANGED <<category, written, sweep, restarts, claimsPaused, askedAt>>

\* runOnce claims a job and execute() tests the flag the claim returned
\* before it calls the handler.
Claim(w, j) ==
  /\ pc[w] = "idle" /\ ~claimsPaused /\ Claimable(j)
  /\ ClaimRow(w, j)
  /\ Goto(w, IF cancellationRequested[j] THEN "cancelling" ELSE "running")
  /\ current' = [current EXCEPT ![w] = j]
  /\ attempt' = [attempt EXCEPT ![w] = attemptCount[j] + 1]
  /\ UNCHANGED <<category, written, sweep, restarts, claimsPaused, askedAt>>

\* The claim commits but its answer never arrives: loop() logs and polls on.
ClaimAnswerLost(w, j) ==
  /\ pc[w] = "idle" /\ ~claimsPaused /\ Claimable(j)
  /\ ClaimRow(w, j)
  /\ UNCHANGED <<loopVars, written, sweep, restarts, claimsPaused, askedAt>>

-----------------------------------------------------------------------------
(* The handler                                                             *)

\* A handler that sees the cancellation throws CancelledError or a
\* CategorizedError of category CANCELLED.
StopForCancellation(w) ==
  IF current[w] \in ReportingJobs
    THEN CatchFailure(w, "CANCELLED")
    ELSE Goto(w, "cancelling") /\ UNCHANGED <<current, attempt, category>>

\* LeaseLostError leaves execute() at once; the backtest handler wraps it in
\* a CategorizedError, so the worker still calls repository.fail.
LoseLease(w) == LeaveJob(w) \/ CatchFailure(w, "UPSTREAM_ENGINE")

Heartbeat(w) ==
  LET j == current[w] IN
  /\ pc[w] = "running"
  /\ IF Owns(w, j) /\ status[j] \in Active
       THEN /\ lease' = [lease EXCEPT ![j] = "LIVE"]
            /\ IF cancellationRequested[j] THEN StopForCancellation(w)
                                           ELSE UNCHANGED loopVars
       ELSE LoseLease(w) /\ UNCHANGED lease
  /\ UNCHANGED <<status, leaseOwner, attemptCount, cancellationRequested,
                 errorCategory, resultRef, written, sweep, restarts,
                 claimsPaused, askedAt>>

\* Mutant: the evidence lease is checked by owner and expiry alone.
EvidenceLeaseByOwner(w, j) == Owns(w, j) /\ lease[j] = "LIVE"

\* lockEvidenceLease: the row lock is held until the transaction that writes
\* the evidence commits.
EvidenceLeaseHeld(w, j) ==
  /\ Owns(w, j) /\ attemptCount[j] = attempt[w]
  /\ status[j] = "RUNNING" /\ ~cancellationRequested[j]
  /\ lease[j] = "LIVE"

\* A transaction fenced by lockEvidenceLease (it throws LeaseLostError when
\* the fence fails), or the unfenced insert of the result row.
WriteResult(w) ==
  LET j == current[w] IN
  /\ pc[w] = "running"
  /\ IF j \in EvidenceJobs /\ ~EvidenceLeaseHeld(w, j)
       THEN LoseLease(w) /\ UNCHANGED written
       ELSE written' = written \cup {<<j, attempt[w]>>} /\ UNCHANGED loopVars
  /\ UNCHANGED <<rowVars, sweep, restarts, claimsPaused, askedAt>>

HandlerReturns(w) ==
  /\ pc[w] = "running"
  /\ <<current[w], attempt[w]>> \in written
  /\ Goto(w, "completing")
  /\ UNCHANGED <<current, attempt, category, rowVars, written, sweep, restarts,
                 claimsPaused, askedAt>>

HandlerThrows(w) ==
  /\ pc[w] = "running"
  /\ \E c \in HandlerCategories : CatchFailure(w, c)
  /\ UNCHANGED <<rowVars, written, sweep, restarts, claimsPaused, askedAt>>

-----------------------------------------------------------------------------
(* complete, markCancelled and fail                                        *)

ReleaseLease(j) ==
  /\ leaseOwner' = [leaseOwner EXCEPT ![j] = NoOwner]
  /\ lease' = [lease EXCEPT ![j] = "NONE"]

\* Mutant: complete updates by id alone.
CompleteRowUnfenced(w, j) ==
  /\ status' = [status EXCEPT ![j] = "SUCCEEDED"]
  /\ resultRef' = [resultRef EXCEPT ![j] = attempt[w]]
  /\ ReleaseLease(j)
  /\ UNCHANGED <<attemptCount, cancellationRequested, errorCategory>>

CompleteRow(w, j) ==
  /\ Owns(w, j)
  /\ status' = [status EXCEPT ![j] = "SUCCEEDED"]
  /\ resultRef' = [resultRef EXCEPT ![j] = attempt[w]]
  /\ ReleaseLease(j)
  /\ UNCHANGED <<attemptCount, cancellationRequested, errorCategory>>

Complete(w) ==
  LET j == current[w] IN
  /\ pc[w] = "completing"
  /\ CompleteRow(w, j) \/ (~Owns(w, j) /\ UNCHANGED rowVars)
  /\ LeaveJob(w)
  /\ UNCHANGED <<written, sweep, restarts, claimsPaused, askedAt>>

\* complete() rejects for another reason, before or after its commit: the
\* catch clause records the attempt as failed.
CompleteErrors(w) ==
  LET j == current[w] IN
  /\ pc[w] = "completing"
  /\ CompleteRow(w, j) \/ UNCHANGED rowVars
  /\ CatchFailure(w, "UNKNOWN")
  /\ UNCHANGED <<written, sweep, restarts, claimsPaused, askedAt>>

MarkCancelled(w) ==
  LET j == current[w] IN
  /\ pc[w] = "cancelling"
  /\ \/ /\ Owns(w, j)
        /\ status' = [status EXCEPT ![j] = "CANCELLED"]
        /\ errorCategory' = [errorCategory EXCEPT ![j] = "CANCELLED"]
        /\ ReleaseLease(j)
        /\ UNCHANGED <<attemptCount, cancellationRequested, resultRef>>
     \/ ~Owns(w, j) /\ UNCHANGED rowVars
  /\ LeaveJob(w)
  /\ UNCHANGED <<written, sweep, restarts, claimsPaused, askedAt>>

\* Mutant: fail() retries every transient error, whatever the attempts.
FailReadsForgetsLimit(w) ==
  LET j == current[w] IN
  /\ pc[w] = "failing"
  /\ IF Owns(w, j)
       THEN /\ Goto(w, IF category[w] \in Retryable THEN "requeue" ELSE "failed")
            /\ UNCHANGED <<current, attempt, category>>
       ELSE LeaveJob(w)
  /\ UNCHANGED <<rowVars, written, sweep, restarts, claimsPaused, askedAt>>

\* The SELECT of fail(): it decides between the two UPDATEs.
FailReads(w) ==
  LET j == current[w] IN
  /\ pc[w] = "failing"
  /\ IF Owns(w, j)
       THEN /\ Goto(w, IF category[w] \in Retryable
                          /\ attemptCount[j] < MaxAttempts
                         THEN "requeue" ELSE "failed")
            /\ UNCHANGED <<current, attempt, category>>
       ELSE LeaveJob(w)
  /\ UNCHANGED <<rowVars, written, sweep, restarts, claimsPaused, askedAt>>

\* The UPDATE of fail().
FailUpdates(w) ==
  LET j == current[w] IN
  /\ pc[w] \in {"requeue", "failed"}
  /\ \/ /\ Owns(w, j)
        /\ status' = [status EXCEPT ![j] =
                        IF pc[w] = "requeue" THEN "QUEUED" ELSE "FAILED"]
        /\ errorCategory' = [errorCategory EXCEPT ![j] = category[w]]
        /\ ReleaseLease(j)
        /\ UNCHANGED <<attemptCount, cancellationRequested, resultRef>>
     \/ ~Owns(w, j) /\ UNCHANGED rowVars
  /\ LeaveJob(w)
  /\ UNCHANGED <<written, sweep, restarts, claimsPaused, askedAt>>

\* markCancelled() or fail() rejects: the error is swallowed and the row
\* keeps its owner until the lease runs out.
SettlementErrors(w) ==
  /\ pc[w] \in {"cancelling", "failing", "requeue", "failed"}
  /\ LeaveJob(w)
  /\ UNCHANGED <<rowVars, written, sweep, restarts, claimsPaused, askedAt>>

-----------------------------------------------------------------------------
(* reapExpiredLeases: two statements, each over the whole table.           *)

Reapable(j) == status[j] \in Active /\ lease[j] = "EXPIRED"

ReapRows(R, newStatus) ==
  /\ status' = [j \in Jobs |-> IF j \in R THEN newStatus ELSE status[j]]
  /\ leaseOwner' = [j \in Jobs |-> IF j \in R THEN NoOwner ELSE leaseOwner[j]]
  /\ lease' = [j \in Jobs |-> IF j \in R THEN "NONE" ELSE lease[j]]
  /\ errorCategory' = [j \in Jobs |-> IF j \in R THEN "LEASE_EXPIRED"
                                                 ELSE errorCategory[j]]
  /\ UNCHANGED <<attemptCount, cancellationRequested, resultRef>>

\* Mutant: the sweep requeues every expired job.
ReapRequeuesAll(w) ==
  /\ sweep[w] = "idle"
  /\ ReapRows({j \in Jobs : Reapable(j)}, "QUEUED")
  /\ sweep' = [sweep EXCEPT ![w] = "requeued"]
  /\ UNCHANGED <<written, loopVars, restarts, claimsPaused, askedAt>>

ReapRequeues(w) ==
  /\ sweep[w] = "idle"
  /\ ReapRows({j \in Jobs : Reapable(j) /\ attemptCount[j] < MaxAttempts},
              "QUEUED")
  /\ sweep' = [sweep EXCEPT ![w] = "requeued"]
  /\ UNCHANGED <<written, loopVars, restarts, claimsPaused, askedAt>>

ReapInterrupts(w) ==
  /\ sweep[w] = "requeued"
  /\ ReapRows({j \in Jobs : Reapable(j) /\ attemptCount[j] >= MaxAttempts},
              "INTERRUPTED")
  /\ sweep' = [sweep EXCEPT ![w] = "idle"]
  /\ UNCHANGED <<written, loopVars, restarts, claimsPaused, askedAt>>

-----------------------------------------------------------------------------
(* The operator, time and crashes                                          *)

RequestCancellation(j) ==
  /\ status[j] \in {"QUEUED"} \cup Active
  /\ status' = [status EXCEPT ![j] = CASE @ = "QUEUED"  -> "CANCELLED"
                                       [] @ = "RUNNING" -> "CANCELLING"
                                       [] OTHER         -> @]
  /\ errorCategory' = [errorCategory EXCEPT ![j] =
                         IF status[j] = "QUEUED" THEN "CANCELLED" ELSE @]
  /\ cancellationRequested' = [cancellationRequested EXCEPT ![j] = TRUE]
  /\ askedAt' = [askedAt EXCEPT ![j] = IF @ = Never THEN attemptCount[j] ELSE @]
  /\ UNCHANGED <<leaseOwner, lease, attemptCount, resultRef, written, loopVars,
                 sweep, restarts, claimsPaused>>

\* now() passes lease_expires_at, whether or not the owner is still alive.
LeaseExpires(j) ==
  /\ lease[j] = "LIVE"
  /\ lease' = [lease EXCEPT ![j] = "EXPIRED"]
  /\ UNCHANGED <<status, leaseOwner, attemptCount, cancellationRequested,
                 errorCategory, resultRef, written, loopVars, sweep, restarts,
                 claimsPaused, askedAt>>

\* The market session opens or its close grace period ends.
MarketOpens ==
  /\ MarketTrades /\ ~claimsPaused /\ claimsPaused' = TRUE
  /\ UNCHANGED <<rowVars, written, loopVars, sweep, restarts, askedAt>>

MarketCloses ==
  /\ claimsPaused /\ claimsPaused' = FALSE
  /\ UNCHANGED <<rowVars, written, loopVars, sweep, restarts, askedAt>>

\* The process dies and is restarted under a new ownerId.
Crash(w) ==
  /\ restarts[w] < MaxRestarts
  /\ restarts' = [restarts EXCEPT ![w] = @ + 1]
  /\ LeaveJob(w)
  /\ sweep' = [sweep EXCEPT ![w] = "idle"]
  /\ UNCHANGED <<rowVars, written, claimsPaused, askedAt>>

-----------------------------------------------------------------------------
WorkerStep(w) ==
  \/ \E j \in Jobs : Claim(w, j) \/ ClaimAnswerLost(w, j)
  \/ Heartbeat(w) \/ WriteResult(w) \/ HandlerReturns(w) \/ HandlerThrows(w)
  \/ Complete(w) \/ CompleteErrors(w) \/ MarkCancelled(w)
  \/ FailReads(w) \/ FailUpdates(w) \/ SettlementErrors(w)
  \/ ReapRequeues(w) \/ ReapInterrupts(w) \/ Crash(w)

Next ==
  \/ \E w \in Workers : WorkerStep(w)
  \/ \E j \in Jobs : RequestCancellation(j) \/ LeaseExpires(j)
  \/ MarketOpens \/ MarketCloses

Spec == Init /\ [][Next]_vars

\* A lease that no running worker renews: its owner crashed, lost the answer
\* of its claim or swallowed a settlement error.
Unattended(j) ==
  ~\E w \in Workers : current[w] = j /\ Owns(w, j)

\* What the code schedules: the poll loop and the sweep timer keep running,
\* handlers end, sessions close, and an unattended lease runs out.  A claim is
\* only enabled between sessions, hence the strong fairness.
Fairness ==
  /\ \A w \in Workers :
       /\ SF_vars(\E j \in Jobs : Claim(w, j))
       /\ WF_vars(WriteResult(w))
       /\ WF_vars(HandlerReturns(w))
       /\ WF_vars(Complete(w) \/ CompleteErrors(w))
       /\ WF_vars(MarkCancelled(w) \/ SettlementErrors(w))
       /\ WF_vars(FailReads(w) \/ FailUpdates(w) \/ SettlementErrors(w))
       /\ WF_vars(ReapRequeues(w) \/ ReapInterrupts(w))
  /\ \A j \in Jobs : WF_vars(Unattended(j) /\ LeaseExpires(j))
  /\ WF_vars(MarketCloses)

FairSpec == Spec /\ Fairness

-----------------------------------------------------------------------------
(* The queue implements JobLifecycle.                                      *)

PhaseOf(s) ==
  CASE s = "QUEUED"      -> "waiting"
    [] s \in Active      -> "active"
    [] s = "SUCCEEDED"   -> "succeeded"
    [] s = "FAILED"      -> "failed"
    [] s = "CANCELLED"   -> "cancelled"
    [] s = "INTERRUPTED" -> "interrupted"

phaseOf == [j \in Jobs |-> PhaseOf(status[j])]

Lifecycle == INSTANCE JobLifecycle
  WITH Budget <- MaxAttempts, phase <- phaseOf, starts <- attemptCount,
       stopAsked <- cancellationRequested, published <- resultRef

\* The workers, leases, sweeps and crashes behind a job are invisible to its
\* submitter: every statement of research-job-repository.ts moves each row the
\* way JobLifecycle allows, or not at all. QueuedIsClaimable and SettledForGood
\* below follow from it.
ImplementsLifecycle == Lifecycle!Spec

-----------------------------------------------------------------------------
(* Properties                                                              *)

\* The row has an owner and a lease exactly while it is RUNNING or CANCELLING:
\* the settlement statements, which test only id and lease_owner
\* (research-job-repository.ts complete, fail, markCancelled), can therefore
\* never touch a queued or a terminal row.
OwnedIffActive ==
  \A j \in Jobs :
    /\ (leaseOwner[j] # NoOwner) <=> (status[j] \in Active)
    /\ (lease[j] # "NONE") <=> (status[j] \in Active)

\* lease_owner identifies the attempt: a process that is executing a job and
\* still owns its row is executing the row's latest attempt, so fencing by
\* owner alone (complete, fail, heartbeat) is as strong as the attempt check
\* of lockEvidenceLease.  It rests on the loop of a process holding one job at
\* a time (research-worker.ts runOnce) and on ownerIds being unique.
OwnerRunsLatestAttempt ==
  \A w \in Workers : \A j \in Jobs :
    (current[w] = j /\ Owns(w, j)) => attempt[w] = attemptCount[j]

\* A SUCCEEDED job links the result of its last attempt, which that attempt
\* really wrote: a worker that lost its lease never publishes (complete).
SucceededByLatestAttempt ==
  \A j \in Jobs : status[j] = "SUCCEEDED" =>
    /\ resultRef[j] = attemptCount[j]
    /\ <<j, resultRef[j]>> \in written

\* A QUEUED job can still be claimed: neither fail() nor the sweep requeues a
\* job whose attempts are used up, which claimNext would ignore for ever.
QueuedIsClaimable ==
  \A j \in Jobs : status[j] = "QUEUED" => attemptCount[j] < MaxAttempts

\* No attempt that was claimed after the cancellation request runs its
\* handler: the flag survives fail(), the sweep and the re-claim.
CancelledNeverRestarts ==
  \A w \in Workers :
    pc[w] \in {"running", "completing"} => attempt[w] <= askedAt[current[w]]

\* A settled job stays exactly as it was settled, whatever late worker,
\* sweep or operator still refers to it.
SettledRow(j) ==
  /\ status'[j] = status[j] /\ resultRef'[j] = resultRef[j]
  /\ errorCategory'[j] = errorCategory[j] /\ attemptCount'[j] = attemptCount[j]

SettledForGood ==
  [][\A j \in Jobs : status[j] \in Terminal => SettledRow(j)]_vars

\* Evidence of a fenced handler is only ever added by the latest attempt of
\* a job that is RUNNING and not being cancelled (lockEvidenceLease).
EvidenceFenced(j, a) ==
  /\ a = attemptCount[j]
  /\ status[j] = "RUNNING" /\ ~cancellationRequested[j]
  /\ \A b \in Attempts : b > a => <<j, b>> \notin written

EvidenceOnlyFromLatestAttempt ==
  [][\A j \in EvidenceJobs : \A a \in Attempts :
       <<j, a>> \in written' \ written => EvidenceFenced(j, a)]_vars

\* Every job reaches a terminal status, whatever crashes, lost answers and
\* failed statements happen on the way: nothing is stranded in the queue.
EveryJobSettles == \A j \in Jobs : <>(status[j] \in Terminal)

\* A job that was asked to stop and did stop for that reason is CANCELLED: the
\* comment of requestCancellation says the worker "finalizes it via
\* markCancelled".  The reporting handlers make a failure of it instead.
StoppedJobIsCancelled ==
  \A j \in Jobs :
    (status[j] \in Terminal /\ errorCategory[j] = "CANCELLED")
      => status[j] = "CANCELLED"
=============================================================================
