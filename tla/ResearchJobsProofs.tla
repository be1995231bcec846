------------------------- MODULE ResearchJobsProofs -------------------------
(***************************************************************************)
(* Proofs about ResearchJobs, for any number of jobs, workers and attempts.*)
(* The inductive invariant is built in layers: the loop of a process and   *)
(* the types first, then who owns a row, then which attempt its owner      *)
(* runs, and on top of them what a settled job shows.                      *)
(***************************************************************************)
EXTENDS ResearchJobs, TLAPS

-----------------------------------------------------------------------------
(* The layers of the inductive invariant.                                  *)

\* Between two jobs the loop of a process refers to none.
IdleHoldsNoJob == \A w \in Workers : pc[w] = "idle" <=> current[w] = NoJob

\* A process never runs an attempt its job has not reached yet, and result
\* rows are written by attempts that have started.
AttemptsReached ==
  /\ \A w \in Workers : \A j \in Jobs :
       current[w] = j => attempt[w] <= attemptCount[j]
  /\ \A j \in Jobs : \A a \in Attempts :
       <<j, a>> \in written => a <= attemptCount[j]

\* The statement a process is about to send was decided on facts that still
\* hold while it owns the row.
SettlementJustified ==
  \A w \in Workers :
    /\ pc[w] = "completing" => <<current[w], attempt[w]>> \in written
    /\ pc[w] = "cancelling" => cancellationRequested[current[w]]
    /\ (pc[w] = "requeue" /\ Owns(w, current[w]))
         => attemptCount[current[w]] < MaxAttempts

\* askedAt records exactly the jobs whose cancellation was requested.
AskedIsFlagged ==
  \A j \in Jobs : ~cancellationRequested[j] => askedAt[j] = Never

IInv ==
  /\ TypeOK /\ IdleHoldsNoJob /\ OwnedIffActive /\ AttemptsReached
  /\ OwnerRunsLatestAttempt /\ SettlementJustified /\ AskedIsFlagged
  /\ QueuedIsClaimable /\ CancelledNeverRestarts /\ SucceededByLatestAttempt

-----------------------------------------------------------------------------
(* The loop forgets its job exactly when it becomes idle.                  *)
LEMMA IdleStep ==
  ASSUME TypeOK, IdleHoldsNoJob, [Next]_vars
  PROVE  IdleHoldsNoJob'
<1> USE MaxAttemptsAssumption, NoJobAssumption, NoOwnerAssumption
<1> USE DEF TypeOK, vars, rowVars, loopVars, IdleHoldsNoJob, Goto, LeaveJob,
        CatchFailure, Owns, OwnerId
<1>1. ASSUME NEW w \in Workers, NEW j \in Jobs, Claim(w, j)
     PROVE  IdleHoldsNoJob'
  BY <1>1 DEF Claim, Claimable, ClaimRow
<1>2. ASSUME NEW w \in Workers, NEW j \in Jobs, ClaimAnswerLost(w, j)
     PROVE  IdleHoldsNoJob'
  BY <1>2 DEF ClaimAnswerLost, Claimable, ClaimRow
<1>3. ASSUME NEW w \in Workers, Heartbeat(w)  PROVE IdleHoldsNoJob'
  BY <1>3 DEF Heartbeat, StopForCancellation, LoseLease
<1>4. ASSUME NEW w \in Workers, WriteResult(w)  PROVE IdleHoldsNoJob'
  BY <1>4 DEF WriteResult, EvidenceLeaseHeld, LoseLease
<1>5. ASSUME NEW w \in Workers, HandlerReturns(w)  PROVE IdleHoldsNoJob'
  BY <1>5 DEF HandlerReturns
<1>6. ASSUME NEW w \in Workers, HandlerThrows(w)  PROVE IdleHoldsNoJob'
  BY <1>6 DEF HandlerThrows
<1>7. ASSUME NEW w \in Workers, Complete(w)  PROVE IdleHoldsNoJob'
  BY <1>7 DEF Complete, CompleteRow, ReleaseLease
<1>8. ASSUME NEW w \in Workers, CompleteErrors(w)  PROVE IdleHoldsNoJob'
  BY <1>8 DEF CompleteErrors, CompleteRow, ReleaseLease
<1>9. ASSUME NEW w \in Workers, MarkCancelled(w)  PROVE IdleHoldsNoJob'
  BY <1>9 DEF MarkCancelled, ReleaseLease
<1>10. ASSUME NEW w \in Workers, FailReads(w)  PROVE IdleHoldsNoJob'
  BY <1>10 DEF FailReads
<1>11. ASSUME NEW w \in Workers, FailUpdates(w)  PROVE IdleHoldsNoJob'
  BY <1>11 DEF FailUpdates, ReleaseLease
<1>12. ASSUME NEW w \in Workers, SettlementErrors(w)  PROVE IdleHoldsNoJob'
  BY <1>12 DEF SettlementErrors
<1>13. ASSUME NEW w \in Workers, ReapRequeues(w)  PROVE IdleHoldsNoJob'
  BY <1>13 DEF ReapRequeues, ReapRows, Reapable
<1>14. ASSUME NEW w \in Workers, ReapInterrupts(w)  PROVE IdleHoldsNoJob'
  BY <1>14 DEF ReapInterrupts, ReapRows, Reapable
<1>15. ASSUME NEW w \in Workers, Crash(w)  PROVE IdleHoldsNoJob'
  BY <1>15 DEF Crash
<1>16. ASSUME NEW j \in Jobs, RequestCancellation(j)  PROVE IdleHoldsNoJob'
  BY <1>16 DEF RequestCancellation
<1>17. ASSUME NEW j \in Jobs, LeaseExpires(j)  PROVE IdleHoldsNoJob'
  BY <1>17 DEF LeaseExpires
<1>18. CASE MarketOpens
  BY <1>18 DEF MarketOpens
<1>19. CASE MarketCloses
  BY <1>19 DEF MarketCloses
<1>20. CASE UNCHANGED vars
  BY <1>20 DEF vars
<1>21. QED
  BY <1>1, <1>2, <1>3, <1>4, <1>5, <1>6, <1>7, <1>8, <1>9, <1>10, <1>11,
     <1>12, <1>13, <1>14, <1>15, <1>16, <1>17, <1>18, <1>19, <1>20 DEF Next,
     WorkerStep

\* The UPDATE that settles a job, or puts it back, and the loop's return from
\* it keep their types.
RowTypes ==
  /\ status \in [Jobs -> Status]
  /\ leaseOwner \in [Jobs -> (Workers \X Nat) \cup {NoOwner}]
  /\ lease \in [Jobs -> {"NONE", "LIVE", "EXPIRED"}]
  /\ attemptCount \in [Jobs -> Attempts]
  /\ cancellationRequested \in [Jobs -> BOOLEAN]
  /\ errorCategory \in [Jobs -> Categories]
  /\ resultRef \in [Jobs -> Attempts]

LoopTypes ==
  /\ pc \in [Workers -> Loop]
  /\ current \in [Workers -> Jobs \cup {NoJob}]
  /\ attempt \in [Workers -> Attempts]
  /\ category \in [Workers -> Categories]

LEMMA SettlingRowTypes ==
  ASSUME RowTypes, NEW j \in Jobs, NEW s \in Status, NEW c \in Categories,
         status' = [status EXCEPT ![j] = s],
         errorCategory' = [errorCategory EXCEPT ![j] = c],
         ReleaseLease(j),
         UNCHANGED <<attemptCount, cancellationRequested, resultRef>>
  PROVE  RowTypes'
BY DEF RowTypes, ReleaseLease

LEMMA LeavingTypes ==
  ASSUME LoopTypes, NEW w \in Workers, LeaveJob(w)
  PROVE  LoopTypes'
BY MaxAttemptsAssumption DEF LoopTypes, LeaveJob, Goto, Loop, Attempts, Categories

(* Every step keeps the columns and the worker variables in their types.   *)
LEMMA TypeStep ==
  ASSUME TypeOK, IdleHoldsNoJob, [Next]_vars
  PROVE  TypeOK'
<1> USE MaxAttemptsAssumption, NoJobAssumption, NoOwnerAssumption
<1> USE DEF TypeOK, vars, rowVars, loopVars, Status, Active, Terminal,
        Categories, HandlerCategories, Attempts, Never, Loop,
        IdleHoldsNoJob, Goto, LeaveJob, CatchFailure, Owns, OwnerId
<1>1. ASSUME NEW w \in Workers, NEW j \in Jobs, Claim(w, j)  PROVE TypeOK'
  BY <1>1 DEF Claim, Claimable, ClaimRow
<1>2. ASSUME NEW w \in Workers, NEW j \in Jobs, ClaimAnswerLost(w, j)
     PROVE  TypeOK'
  BY <1>2 DEF ClaimAnswerLost, Claimable, ClaimRow
<1>3. ASSUME NEW w \in Workers, Heartbeat(w)  PROVE TypeOK'
  BY <1>3 DEF Heartbeat, StopForCancellation, LoseLease
<1>4. ASSUME NEW w \in Workers, WriteResult(w)  PROVE TypeOK'
  BY <1>4 DEF WriteResult, EvidenceLeaseHeld, LoseLease
<1>5. ASSUME NEW w \in Workers, HandlerReturns(w)  PROVE TypeOK'
  BY <1>5 DEF HandlerReturns
<1>6. ASSUME NEW w \in Workers, HandlerThrows(w)  PROVE TypeOK'
  BY <1>6 DEF HandlerThrows
<1>7. ASSUME NEW w \in Workers, Complete(w)  PROVE TypeOK'
  <2>1. CASE CompleteRow(w, current[w])
    BY <1>7, <2>1 DEF Complete, CompleteRow, ReleaseLease
  <2>2. CASE UNCHANGED rowVars
    BY <1>7, <2>2 DEF Complete
  <2>. QED  BY <1>7, <2>1, <2>2 DEF Complete
<1>8. ASSUME NEW w \in Workers, CompleteErrors(w)  PROVE TypeOK'
  <2>1. CASE CompleteRow(w, current[w])
    BY <1>8, <2>1 DEF CompleteErrors, CompleteRow, ReleaseLease
  <2>2. CASE UNCHANGED rowVars
    BY <1>8, <2>2 DEF CompleteErrors
  <2>. QED  BY <1>8, <2>1, <2>2 DEF CompleteErrors
<1>9. ASSUME NEW w \in Workers, MarkCancelled(w)  PROVE TypeOK'
  <2>1. RowTypes /\ LoopTypes
    BY DEF RowTypes, LoopTypes
  <2>2. current[w] \in Jobs /\ category[w] \in Categories
    BY <1>9 DEF MarkCancelled
  <2>3. LeaveJob(w) /\ UNCHANGED <<written, sweep, restarts, claimsPaused, askedAt>>
    BY <1>9 DEF MarkCancelled
  <2>4. RowTypes'
    <3> DEFINE s == "CANCELLED"
    <3>1. s \in Status
      OBVIOUS
    <3> HIDE DEF TypeOK, IdleHoldsNoJob, LeaveJob, Status, Categories, s
    <3>2. CASE /\ status' = [status EXCEPT ![current[w]] = s]
               /\ errorCategory' = [errorCategory EXCEPT ![current[w]] = "CANCELLED"]
               /\ ReleaseLease(current[w])
               /\ UNCHANGED <<attemptCount, cancellationRequested, resultRef>>
      BY <2>1, <2>2, <3>1, <3>2, SettlingRowTypes DEF Categories
    <3>3. CASE UNCHANGED rowVars
      BY <2>1, <3>3 DEF RowTypes
    <3>. QED  BY <1>9, <3>2, <3>3 DEF MarkCancelled, s
  <2>5. LoopTypes'
    <3> HIDE DEF TypeOK, IdleHoldsNoJob, LeaveJob
    <3>. QED  BY <2>1, <2>3, LeavingTypes
  <2> HIDE DEF IdleHoldsNoJob, LeaveJob, Status, Categories, Loop
  <2>. QED  BY <2>3, <2>4, <2>5 DEF RowTypes, LoopTypes
<1>10. ASSUME NEW w \in Workers, FailReads(w)  PROVE TypeOK'
  <2>1. CASE Owns(w, current[w])
    BY <1>10, <2>1 DEF FailReads
  <2>2. CASE LeaveJob(w)
    BY <1>10, <2>2 DEF FailReads
  <2>. QED  BY <1>10, <2>1, <2>2 DEF FailReads
<1>11. ASSUME NEW w \in Workers, FailUpdates(w)  PROVE TypeOK'
  <2>1. RowTypes /\ LoopTypes
    BY DEF RowTypes, LoopTypes
  <2>2. current[w] \in Jobs /\ category[w] \in Categories
    BY <1>11 DEF FailUpdates
  <2>3. LeaveJob(w) /\ UNCHANGED <<written, sweep, restarts, claimsPaused, askedAt>>
    BY <1>11 DEF FailUpdates
  <2>4. RowTypes'
    <3> DEFINE s == IF pc[w] = "requeue" THEN "QUEUED" ELSE "FAILED"
    <3>1. s \in Status
      OBVIOUS
    <3> HIDE DEF TypeOK, IdleHoldsNoJob, LeaveJob, Status, Categories, s
    <3>2. CASE /\ status' = [status EXCEPT ![current[w]] = s]
               /\ errorCategory' = [errorCategory EXCEPT ![current[w]] = category[w]]
               /\ ReleaseLease(current[w])
               /\ UNCHANGED <<attemptCount, cancellationRequested, resultRef>>
      BY <2>1, <2>2, <3>1, <3>2, SettlingRowTypes
    <3>3. CASE UNCHANGED rowVars
      BY <2>1, <3>3 DEF RowTypes
    <3>. QED  BY <1>11, <3>2, <3>3 DEF FailUpdates, s
  <2>5. LoopTypes'
    <3> HIDE DEF TypeOK, IdleHoldsNoJob, LeaveJob
    <3>. QED  BY <2>1, <2>3, LeavingTypes
  <2> HIDE DEF IdleHoldsNoJob, LeaveJob, Status, Categories, Loop
  <2>. QED  BY <2>3, <2>4, <2>5 DEF RowTypes, LoopTypes
<1>12. ASSUME NEW w \in Workers, SettlementErrors(w)  PROVE TypeOK'
  BY <1>12 DEF SettlementErrors
<1>13. ASSUME NEW w \in Workers, ReapRequeues(w)  PROVE TypeOK'
  BY <1>13 DEF ReapRequeues, ReapRows, Reapable
<1>14. ASSUME NEW w \in Workers, ReapInterrupts(w)  PROVE TypeOK'
  BY <1>14 DEF ReapInterrupts, ReapRows, Reapable
<1>15. ASSUME NEW w \in Workers, Crash(w)  PROVE TypeOK'
  BY <1>15 DEF Crash
<1>16. ASSUME NEW j \in Jobs, RequestCancellation(j)  PROVE TypeOK'
  BY <1>16 DEF RequestCancellation
<1>17. ASSUME NEW j \in Jobs, LeaseExpires(j)  PROVE TypeOK'
  BY <1>17 DEF LeaseExpires
<1>18. CASE MarketOpens
  BY <1>18 DEF MarketOpens
<1>19. CASE MarketCloses
  BY <1>19 DEF MarketCloses
<1>20. CASE UNCHANGED vars
  BY <1>20 DEF vars
<1>21. QED
  BY <1>1, <1>2, <1>3, <1>4, <1>5, <1>6, <1>7, <1>8, <1>9, <1>10, <1>11,
     <1>12, <1>13, <1>14, <1>15, <1>16, <1>17, <1>18, <1>19, <1>20 DEF Next,
     WorkerStep

(* A statement that gives or takes a lease changes the status with it.     *)
LEMMA OwnedStep ==
  ASSUME TypeOK, IdleHoldsNoJob, OwnedIffActive, [Next]_vars
  PROVE  OwnedIffActive'
<1> USE MaxAttemptsAssumption, NoJobAssumption, NoOwnerAssumption
<1> USE DEF TypeOK, vars, rowVars, loopVars, Status, Active, Terminal,
        Attempts, Never, IdleHoldsNoJob, OwnedIffActive, Goto, LeaveJob,
        CatchFailure, Owns, OwnerId
<1>1. ASSUME NEW w \in Workers, NEW j \in Jobs, Claim(w, j)
     PROVE  OwnedIffActive'
  BY <1>1 DEF Claim, Claimable, ClaimRow
<1>2. ASSUME NEW w \in Workers, NEW j \in Jobs, ClaimAnswerLost(w, j)
     PROVE  OwnedIffActive'
  BY <1>2 DEF ClaimAnswerLost, Claimable, ClaimRow
<1>3. ASSUME NEW w \in Workers, Heartbeat(w)  PROVE OwnedIffActive'
  BY <1>3 DEF Heartbeat, StopForCancellation, LoseLease
<1>4. ASSUME NEW w \in Workers, WriteResult(w)  PROVE OwnedIffActive'
  BY <1>4 DEF WriteResult, EvidenceLeaseHeld, LoseLease
<1>5. ASSUME NEW w \in Workers, HandlerReturns(w)  PROVE OwnedIffActive'
  BY <1>5 DEF HandlerReturns
<1>6. ASSUME NEW w \in Workers, HandlerThrows(w)  PROVE OwnedIffActive'
  BY <1>6 DEF HandlerThrows
<1>7. ASSUME NEW w \in Workers, Complete(w)  PROVE OwnedIffActive'
  BY <1>7 DEF Complete, CompleteRow, ReleaseLease
<1>8. ASSUME NEW w \in Workers, CompleteErrors(w)  PROVE OwnedIffActive'
  BY <1>8 DEF CompleteErrors, CompleteRow, ReleaseLease
<1>9. ASSUME NEW w \in Workers, MarkCancelled(w)  PROVE OwnedIffActive'
  BY <1>9 DEF MarkCancelled, ReleaseLease
<1>10. ASSUME NEW w \in Workers, FailReads(w)  PROVE OwnedIffActive'
  BY <1>10 DEF FailReads
<1>11. ASSUME NEW w \in Workers, FailUpdates(w)  PROVE OwnedIffActive'
  BY <1>11 DEF FailUpdates, ReleaseLease
<1>12. ASSUME NEW w \in Workers, SettlementErrors(w)  PROVE OwnedIffActive'
  BY <1>12 DEF SettlementErrors
<1>13. ASSUME NEW w \in Workers, ReapRequeues(w)  PROVE OwnedIffActive'
  BY <1>13 DEF ReapRequeues, ReapRows, Reapable
<1>14. ASSUME NEW w \in Workers, ReapInterrupts(w)  PROVE OwnedIffActive'
  BY <1>14 DEF ReapInterrupts, ReapRows, Reapable
<1>15. ASSUME NEW w \in Workers, Crash(w)  PROVE OwnedIffActive'
  BY <1>15 DEF Crash
<1>16. ASSUME NEW j \in Jobs, RequestCancellation(j)  PROVE OwnedIffActive'
  BY <1>16 DEF RequestCancellation
<1>17. ASSUME NEW j \in Jobs, LeaseExpires(j)  PROVE OwnedIffActive'
  BY <1>17 DEF LeaseExpires
<1>18. CASE MarketOpens
  BY <1>18 DEF MarketOpens
<1>19. CASE MarketCloses
  BY <1>19 DEF MarketCloses
<1>20. CASE UNCHANGED vars
  BY <1>20 DEF vars
<1>21. QED
  BY <1>1, <1>2, <1>3, <1>4, <1>5, <1>6, <1>7, <1>8, <1>9, <1>10, <1>11,
     <1>12, <1>13, <1>14, <1>15, <1>16, <1>17, <1>18, <1>19, <1>20 DEF Next,
     WorkerStep

(* Attempts only grow, and a process learns its attempt from the claim.    *)
LEMMA ReachedStep ==
  ASSUME TypeOK, IdleHoldsNoJob, AttemptsReached, [Next]_vars
  PROVE  AttemptsReached'
<1> USE MaxAttemptsAssumption, NoJobAssumption, NoOwnerAssumption
<1> USE DEF TypeOK, vars, rowVars, loopVars, Status, Active, Terminal,
        Attempts, Never, IdleHoldsNoJob, AttemptsReached, Goto, LeaveJob,
        CatchFailure, Owns, OwnerId
<1>1. ASSUME NEW w \in Workers, NEW j \in Jobs, Claim(w, j)
     PROVE  AttemptsReached'
  BY <1>1 DEF Claim, Claimable, ClaimRow
<1>2. ASSUME NEW w \in Workers, NEW j \in Jobs, ClaimAnswerLost(w, j)
     PROVE  AttemptsReached'
  BY <1>2 DEF ClaimAnswerLost, Claimable, ClaimRow
<1>3. ASSUME NEW w \in Workers, Heartbeat(w)  PROVE AttemptsReached'
  BY <1>3 DEF Heartbeat, StopForCancellation, LoseLease
<1>4. ASSUME NEW w \in Workers, WriteResult(w)  PROVE AttemptsReached'
  BY <1>4 DEF WriteResult, EvidenceLeaseHeld, LoseLease
<1>5. ASSUME NEW w \in Workers, HandlerReturns(w)  PROVE AttemptsReached'
  BY <1>5 DEF HandlerReturns
<1>6. ASSUME NEW w \in Workers, HandlerThrows(w)  PROVE AttemptsReached'
  BY <1>6 DEF HandlerThrows
<1>7. ASSUME NEW w \in Workers, Complete(w)  PROVE AttemptsReached'
  BY <1>7 DEF Complete, CompleteRow, ReleaseLease
<1>8. ASSUME NEW w \in Workers, CompleteErrors(w)  PROVE AttemptsReached'
  BY <1>8 DEF CompleteErrors, CompleteRow, ReleaseLease
<1>9. ASSUME NEW w \in Workers, MarkCancelled(w)  PROVE AttemptsReached'
  BY <1>9 DEF MarkCancelled, ReleaseLease
<1>10. ASSUME NEW w \in Workers, FailReads(w)  PROVE AttemptsReached'
  BY <1>10 DEF FailReads
<1>11. ASSUME NEW w \in Workers, FailUpdates(w)  PROVE AttemptsReached'
  BY <1>11 DEF FailUpdates, ReleaseLease
<1>12. ASSUME NEW w \in Workers, SettlementErrors(w)  PROVE AttemptsReached'
  BY <1>12 DEF SettlementErrors
<1>13. ASSUME NEW w \in Workers, ReapRequeues(w)  PROVE AttemptsReached'
  BY <1>13 DEF ReapRequeues, ReapRows, Reapable
<1>14. ASSUME NEW w \in Workers, ReapInterrupts(w)  PROVE AttemptsReached'
  BY <1>14 DEF ReapInterrupts, ReapRows, Reapable
<1>15. ASSUME NEW w \in Workers, Crash(w)  PROVE AttemptsReached'
  BY <1>15 DEF Crash
<1>16. ASSUME NEW j \in Jobs, RequestCancellation(j)  PROVE AttemptsReached'
  BY <1>16 DEF RequestCancellation
<1>17. ASSUME NEW j \in Jobs, LeaseExpires(j)  PROVE AttemptsReached'
  BY <1>17 DEF LeaseExpires
<1>18. CASE MarketOpens
  BY <1>18 DEF MarketOpens
<1>19. CASE MarketCloses
  BY <1>19 DEF MarketCloses
<1>20. CASE UNCHANGED vars
  BY <1>20 DEF vars
<1>21. QED
  BY <1>1, <1>2, <1>3, <1>4, <1>5, <1>6, <1>7, <1>8, <1>9, <1>10, <1>11,
     <1>12, <1>13, <1>14, <1>15, <1>16, <1>17, <1>18, <1>19, <1>20 DEF Next,
     WorkerStep

(* Only a claim starts an attempt, and the claim also changes the owner.   *)
LEMMA OwnerStep ==
  ASSUME TypeOK, IdleHoldsNoJob, OwnerRunsLatestAttempt, [Next]_vars
  PROVE  OwnerRunsLatestAttempt'
<1> USE MaxAttemptsAssumption, NoJobAssumption, NoOwnerAssumption
<1> USE DEF TypeOK, vars, rowVars, loopVars, Status, Active, Terminal,
        Attempts, Never, IdleHoldsNoJob, OwnerRunsLatestAttempt, Goto,
        LeaveJob, CatchFailure, Owns, OwnerId
<1>1. ASSUME NEW w \in Workers, NEW j \in Jobs, Claim(w, j)
     PROVE  OwnerRunsLatestAttempt'
  BY <1>1 DEF Claim, Claimable, ClaimRow
<1>2. ASSUME NEW w \in Workers, NEW j \in Jobs, ClaimAnswerLost(w, j)
     PROVE  OwnerRunsLatestAttempt'
  BY <1>2 DEF ClaimAnswerLost, Claimable, ClaimRow
<1>3. ASSUME NEW w \in Workers, Heartbeat(w)  PROVE OwnerRunsLatestAttempt'
  BY <1>3 DEF Heartbeat, StopForCancellation, LoseLease
<1>4. ASSUME NEW w \in Workers, WriteResult(w)  PROVE OwnerRunsLatestAttempt'
  BY <1>4 DEF WriteResult, EvidenceLeaseHeld, LoseLease
<1>5. ASSUME NEW w \in Workers, HandlerReturns(w)
     PROVE  OwnerRunsLatestAttempt'
  BY <1>5 DEF HandlerReturns
<1>6. ASSUME NEW w \in Workers, HandlerThrows(w)
     PROVE  OwnerRunsLatestAttempt'
  BY <1>6 DEF HandlerThrows
<1>7. ASSUME NEW w \in Workers, Complete(w)  PROVE OwnerRunsLatestAttempt'
  BY <1>7 DEF Complete, CompleteRow, ReleaseLease
<1>8. ASSUME NEW w \in Workers, CompleteErrors(w)
     PROVE  OwnerRunsLatestAttempt'
  BY <1>8 DEF CompleteErrors, CompleteRow, ReleaseLease
<1>9. ASSUME NEW w \in Workers, MarkCancelled(w)
     PROVE  OwnerRunsLatestAttempt'
  BY <1>9 DEF MarkCancelled, ReleaseLease
<1>10. ASSUME NEW w \in Workers, FailReads(w)  PROVE OwnerRunsLatestAttempt'
  BY <1>10 DEF FailReads
<1>11. ASSUME NEW w \in Workers, FailUpdates(w)  PROVE OwnerRunsLatestAttempt'
  BY <1>11 DEF FailUpdates, ReleaseLease
<1>12. ASSUME NEW w \in Workers, SettlementErrors(w)
     PROVE  OwnerRunsLatestAttempt'
  BY <1>12 DEF SettlementErrors
<1>13. ASSUME NEW w \in Workers, ReapRequeues(w)
     PROVE  OwnerRunsLatestAttempt'
  BY <1>13 DEF ReapRequeues, ReapRows, Reapable
<1>14. ASSUME NEW w \in Workers, ReapInterrupts(w)
     PROVE  OwnerRunsLatestAttempt'
  BY <1>14 DEF ReapInterrupts, ReapRows, Reapable
<1>15. ASSUME NEW w \in Workers, Crash(w)  PROVE OwnerRunsLatestAttempt'
  BY <1>15 DEF Crash
<1>16. ASSUME NEW j \in Jobs, RequestCancellation(j)
     PROVE  OwnerRunsLatestAttempt'
  BY <1>16 DEF RequestCancellation
<1>17. ASSUME NEW j \in Jobs, LeaseExpires(j)  PROVE OwnerRunsLatestAttempt'
  BY <1>17 DEF LeaseExpires
<1>18. CASE MarketOpens
  BY <1>18 DEF MarketOpens
<1>19. CASE MarketCloses
  BY <1>19 DEF MarketCloses
<1>20. CASE UNCHANGED vars
  BY <1>20 DEF vars
<1>21. QED
  BY <1>1, <1>2, <1>3, <1>4, <1>5, <1>6, <1>7, <1>8, <1>9, <1>10, <1>11,
     <1>12, <1>13, <1>14, <1>15, <1>16, <1>17, <1>18, <1>19, <1>20 DEF Next,
     WorkerStep

(* What a settlement was decided on is stable while the row is owned.      *)
LEMMA JustifiedStep ==
  ASSUME TypeOK, IdleHoldsNoJob, SettlementJustified, [Next]_vars
  PROVE  SettlementJustified'
<1> USE MaxAttemptsAssumption, NoJobAssumption, NoOwnerAssumption
<1> USE DEF TypeOK, vars, rowVars, loopVars, Status, Active, Terminal,
        Attempts, Never, IdleHoldsNoJob, SettlementJustified, Goto,
        LeaveJob, CatchFailure, Owns, OwnerId
<1>1. ASSUME NEW w \in Workers, NEW j \in Jobs, Claim(w, j)
     PROVE  SettlementJustified'
  BY <1>1 DEF Claim, Claimable, ClaimRow
<1>2. ASSUME NEW w \in Workers, NEW j \in Jobs, ClaimAnswerLost(w, j)
     PROVE  SettlementJustified'
  BY <1>2 DEF ClaimAnswerLost, Claimable, ClaimRow
<1>3. ASSUME NEW w \in Workers, Heartbeat(w)  PROVE SettlementJustified'
  BY <1>3 DEF Heartbeat, StopForCancellation, LoseLease
<1>4. ASSUME NEW w \in Workers, WriteResult(w)  PROVE SettlementJustified'
  BY <1>4 DEF WriteResult, EvidenceLeaseHeld, LoseLease
<1>5. ASSUME NEW w \in Workers, HandlerReturns(w)  PROVE SettlementJustified'
  BY <1>5 DEF HandlerReturns
<1>6. ASSUME NEW w \in Workers, HandlerThrows(w)  PROVE SettlementJustified'
  BY <1>6 DEF HandlerThrows
<1>7. ASSUME NEW w \in Workers, Complete(w)  PROVE SettlementJustified'
  <2>1. CASE CompleteRow(w, current[w])
    BY <1>7, <2>1 DEF Complete, CompleteRow, ReleaseLease
  <2>2. CASE UNCHANGED rowVars
    BY <1>7, <2>2 DEF Complete
  <2>. QED  BY <1>7, <2>1, <2>2 DEF Complete
<1>8. ASSUME NEW w \in Workers, CompleteErrors(w)  PROVE SettlementJustified'
  <2>1. CASE CompleteRow(w, current[w])
    BY <1>8, <2>1 DEF CompleteErrors, CompleteRow, ReleaseLease
  <2>2. CASE UNCHANGED rowVars
    BY <1>8, <2>2 DEF CompleteErrors
  <2>. QED  BY <1>8, <2>1, <2>2 DEF CompleteErrors
<1>9. ASSUME NEW w \in Workers, MarkCancelled(w)  PROVE SettlementJustified'
  <2>1. current[w] \in Jobs
    BY <1>9 DEF MarkCancelled
  <2>2. CASE Owns(w, current[w])
    BY <1>9, <2>1, <2>2 DEF MarkCancelled, ReleaseLease
  <2>3. CASE UNCHANGED rowVars
    BY <1>9, <2>3 DEF MarkCancelled
  <2>. QED  BY <1>9, <2>2, <2>3 DEF MarkCancelled
<1>10. ASSUME NEW w \in Workers, FailReads(w)  PROVE SettlementJustified'
  BY <1>10 DEF FailReads
<1>11. ASSUME NEW w \in Workers, FailUpdates(w)  PROVE SettlementJustified'
  <2>1. current[w] \in Jobs
    BY <1>11 DEF FailUpdates
  <2>2. CASE Owns(w, current[w])
    BY <1>11, <2>1, <2>2 DEF FailUpdates, ReleaseLease
  <2>3. CASE UNCHANGED rowVars
    BY <1>11, <2>3 DEF FailUpdates
  <2>. QED  BY <1>11, <2>2, <2>3 DEF FailUpdates
<1>12. ASSUME NEW w \in Workers, SettlementErrors(w)
     PROVE  SettlementJustified'
  BY <1>12 DEF SettlementErrors
<1>13. ASSUME NEW w \in Workers, ReapRequeues(w)  PROVE SettlementJustified'
  BY <1>13 DEF ReapRequeues, ReapRows, Reapable
<1>14. ASSUME NEW w \in Workers, ReapInterrupts(w)  PROVE SettlementJustified'
  <2>1. UNCHANGED <<written, pc, current, attempt, restarts, attemptCount,
                    cancellationRequested>>
    BY <1>14 DEF ReapInterrupts, ReapRows
  <2>2. ASSUME NEW v \in Workers, pc[v] = "requeue", Owns(v, current[v])'
        PROVE  Owns(v, current[v])
    <3>1. current[v] \in Jobs /\ current'[v] = current[v]
      BY <2>1, <2>2 DEF Loop
    <3>2. leaseOwner'[current[v]] = OwnerId(v)
      BY <2>1, <2>2, <3>1
    <3>3. OwnerId(v) # NoOwner
      OBVIOUS
    <3>4. leaseOwner'[current[v]] \in {NoOwner, leaseOwner[current[v]]}
      BY <1>14, <3>1 DEF ReapInterrupts, ReapRows
    <3>. QED  BY <3>1, <3>2, <3>3, <3>4
  <2>. QED  BY <2>1, <2>2
<1>15. ASSUME NEW w \in Workers, Crash(w)  PROVE SettlementJustified'
  BY <1>15 DEF Crash
<1>16. ASSUME NEW j \in Jobs, RequestCancellation(j)
     PROVE  SettlementJustified'
  BY <1>16 DEF RequestCancellation
<1>17. ASSUME NEW j \in Jobs, LeaseExpires(j)  PROVE SettlementJustified'
  BY <1>17 DEF LeaseExpires
<1>18. CASE MarketOpens
  BY <1>18 DEF MarketOpens
<1>19. CASE MarketCloses
  BY <1>19 DEF MarketCloses
<1>20. CASE UNCHANGED vars
  BY <1>20 DEF vars
<1>21. QED
  BY <1>1, <1>2, <1>3, <1>4, <1>5, <1>6, <1>7, <1>8, <1>9, <1>10, <1>11,
     <1>12, <1>13, <1>14, <1>15, <1>16, <1>17, <1>18, <1>19, <1>20 DEF Next,
     WorkerStep

(* The flag and its history change together.                               *)
LEMMA AskedStep ==
  ASSUME TypeOK, AskedIsFlagged, [Next]_vars
  PROVE  AskedIsFlagged'
<1> USE MaxAttemptsAssumption, NoJobAssumption, NoOwnerAssumption
<1> USE DEF TypeOK, vars, rowVars, loopVars, AskedIsFlagged, Goto, LeaveJob,
        CatchFailure, Owns, OwnerId
<1>1. ASSUME NEW w \in Workers, NEW j \in Jobs, Claim(w, j)
     PROVE  AskedIsFlagged'
  BY <1>1 DEF Claim, Claimable, ClaimRow
<1>2. ASSUME NEW w \in Workers, NEW j \in Jobs, ClaimAnswerLost(w, j)
     PROVE  AskedIsFlagged'
  BY <1>2 DEF ClaimAnswerLost, Claimable, ClaimRow
<1>3. ASSUME NEW w \in Workers, Heartbeat(w)  PROVE AskedIsFlagged'
  BY <1>3 DEF Heartbeat, StopForCancellation, LoseLease
<1>4. ASSUME NEW w \in Workers, WriteResult(w)  PROVE AskedIsFlagged'
  BY <1>4 DEF WriteResult, EvidenceLeaseHeld, LoseLease
<1>5. ASSUME NEW w \in Workers, HandlerReturns(w)  PROVE AskedIsFlagged'
  BY <1>5 DEF HandlerReturns
<1>6. ASSUME NEW w \in Workers, HandlerThrows(w)  PROVE AskedIsFlagged'
  BY <1>6 DEF HandlerThrows
<1>7. ASSUME NEW w \in Workers, Complete(w)  PROVE AskedIsFlagged'
  BY <1>7 DEF Complete, CompleteRow, ReleaseLease
<1>8. ASSUME NEW w \in Workers, CompleteErrors(w)  PROVE AskedIsFlagged'
  BY <1>8 DEF CompleteErrors, CompleteRow, ReleaseLease
<1>9. ASSUME NEW w \in Workers, MarkCancelled(w)  PROVE AskedIsFlagged'
  BY <1>9 DEF MarkCancelled, ReleaseLease
<1>10. ASSUME NEW w \in Workers, FailReads(w)  PROVE AskedIsFlagged'
  BY <1>10 DEF FailReads
<1>11. ASSUME NEW w \in Workers, FailUpdates(w)  PROVE AskedIsFlagged'
  BY <1>11 DEF FailUpdates, ReleaseLease
<1>12. ASSUME NEW w \in Workers, SettlementErrors(w)  PROVE AskedIsFlagged'
  BY <1>12 DEF SettlementErrors
<1>13. ASSUME NEW w \in Workers, ReapRequeues(w)  PROVE AskedIsFlagged'
  BY <1>13 DEF ReapRequeues, ReapRows, Reapable
<1>14. ASSUME NEW w \in Workers, ReapInterrupts(w)  PROVE AskedIsFlagged'
  BY <1>14 DEF ReapInterrupts, ReapRows, Reapable
<1>15. ASSUME NEW w \in Workers, Crash(w)  PROVE AskedIsFlagged'
  BY <1>15 DEF Crash
<1>16. ASSUME NEW j \in Jobs, RequestCancellation(j)  PROVE AskedIsFlagged'
  BY <1>16 DEF RequestCancellation
<1>17. ASSUME NEW j \in Jobs, LeaseExpires(j)  PROVE AskedIsFlagged'
  BY <1>17 DEF LeaseExpires
<1>18. CASE MarketOpens
  BY <1>18 DEF MarketOpens
<1>19. CASE MarketCloses
  BY <1>19 DEF MarketCloses
<1>20. CASE UNCHANGED vars
  BY <1>20 DEF vars
<1>21. QED
  BY <1>1, <1>2, <1>3, <1>4, <1>5, <1>6, <1>7, <1>8, <1>9, <1>10, <1>11,
     <1>12, <1>13, <1>14, <1>15, <1>16, <1>17, <1>18, <1>19, <1>20 DEF Next,
     WorkerStep

(* Neither fail nor the sweep requeues a job without attempts left.        *)
LEMMA QueuedStep ==
  ASSUME TypeOK, IdleHoldsNoJob, SettlementJustified, QueuedIsClaimable,
         [Next]_vars
  PROVE  QueuedIsClaimable'
<1> USE MaxAttemptsAssumption, NoJobAssumption, NoOwnerAssumption
<1> USE DEF TypeOK, vars, rowVars, loopVars, Status, Active, Terminal,
        Attempts, Never, IdleHoldsNoJob, SettlementJustified,
        QueuedIsClaimable, Goto, LeaveJob, CatchFailure, Owns, OwnerId
<1>1. ASSUME NEW w \in Workers, NEW j \in Jobs, Claim(w, j)
     PROVE  QueuedIsClaimable'
  BY <1>1 DEF Claim, Claimable, ClaimRow
<1>2. ASSUME NEW w \in Workers, NEW j \in Jobs, ClaimAnswerLost(w, j)
     PROVE  QueuedIsClaimable'
  BY <1>2 DEF ClaimAnswerLost, Claimable, ClaimRow
<1>3. ASSUME NEW w \in Workers, Heartbeat(w)  PROVE QueuedIsClaimable'
  BY <1>3 DEF Heartbeat, StopForCancellation, LoseLease
<1>4. ASSUME NEW w \in Workers, WriteResult(w)  PROVE QueuedIsClaimable'
  BY <1>4 DEF WriteResult, EvidenceLeaseHeld, LoseLease
<1>5. ASSUME NEW w \in Workers, HandlerReturns(w)  PROVE QueuedIsClaimable'
  BY <1>5 DEF HandlerReturns
<1>6. ASSUME NEW w \in Workers, HandlerThrows(w)  PROVE QueuedIsClaimable'
  BY <1>6 DEF HandlerThrows
<1>7. ASSUME NEW w \in Workers, Complete(w)  PROVE QueuedIsClaimable'
  BY <1>7 DEF Complete, CompleteRow, ReleaseLease
<1>8. ASSUME NEW w \in Workers, CompleteErrors(w)  PROVE QueuedIsClaimable'
  BY <1>8 DEF CompleteErrors, CompleteRow, ReleaseLease
<1>9. ASSUME NEW w \in Workers, MarkCancelled(w)  PROVE QueuedIsClaimable'
  BY <1>9 DEF MarkCancelled, ReleaseLease
<1>10. ASSUME NEW w \in Workers, FailReads(w)  PROVE QueuedIsClaimable'
  BY <1>10 DEF FailReads
<1>11. ASSUME NEW w \in Workers, FailUpdates(w)  PROVE QueuedIsClaimable'
  BY <1>11 DEF FailUpdates, ReleaseLease
<1>12. ASSUME NEW w \in Workers, SettlementErrors(w)  PROVE QueuedIsClaimable'
  BY <1>12 DEF SettlementErrors
<1>13. ASSUME NEW w \in Workers, ReapRequeues(w)  PROVE QueuedIsClaimable'
  BY <1>13 DEF ReapRequeues, ReapRows, Reapable
<1>14. ASSUME NEW w \in Workers, ReapInterrupts(w)  PROVE QueuedIsClaimable'
  BY <1>14 DEF ReapInterrupts, ReapRows, Reapable
<1>15. ASSUME NEW w \in Workers, Crash(w)  PROVE QueuedIsClaimable'
  BY <1>15 DEF Crash
<1>16. ASSUME NEW j \in Jobs, RequestCancellation(j)  PROVE QueuedIsClaimable'
  BY <1>16 DEF RequestCancellation
<1>17. ASSUME NEW j \in Jobs, LeaseExpires(j)  PROVE QueuedIsClaimable'
  BY <1>17 DEF LeaseExpires
<1>18. CASE MarketOpens
  BY <1>18 DEF MarketOpens
<1>19. CASE MarketCloses
  BY <1>19 DEF MarketCloses
<1>20. CASE UNCHANGED vars
  BY <1>20 DEF vars
<1>21. QED
  BY <1>1, <1>2, <1>3, <1>4, <1>5, <1>6, <1>7, <1>8, <1>9, <1>10, <1>11,
     <1>12, <1>13, <1>14, <1>15, <1>16, <1>17, <1>18, <1>19, <1>20 DEF Next,
     WorkerStep

(* A flagged job is never handed to its handler.                           *)
LEMMA CancelledStep ==
  ASSUME TypeOK, IdleHoldsNoJob, AttemptsReached, AskedIsFlagged,
         CancelledNeverRestarts, [Next]_vars
  PROVE  CancelledNeverRestarts'
<1> USE MaxAttemptsAssumption, NoJobAssumption, NoOwnerAssumption
<1> USE DEF TypeOK, vars, rowVars, loopVars, Status, Active, Terminal,
        Attempts, Never, IdleHoldsNoJob, AttemptsReached, AskedIsFlagged,
        CancelledNeverRestarts, Goto, LeaveJob, CatchFailure, Owns, OwnerId
<1>1. ASSUME NEW w \in Workers, NEW j \in Jobs, Claim(w, j)
     PROVE  CancelledNeverRestarts'
  BY <1>1 DEF Claim, Claimable, ClaimRow
<1>2. ASSUME NEW w \in Workers, NEW j \in Jobs, ClaimAnswerLost(w, j)
     PROVE  CancelledNeverRestarts'
  BY <1>2 DEF ClaimAnswerLost, Claimable, ClaimRow
<1>3. ASSUME NEW w \in Workers, Heartbeat(w)  PROVE CancelledNeverRestarts'
  BY <1>3 DEF Heartbeat, StopForCancellation, LoseLease
<1>4. ASSUME NEW w \in Workers, WriteResult(w)  PROVE CancelledNeverRestarts'
  BY <1>4 DEF WriteResult, EvidenceLeaseHeld, LoseLease
<1>5. ASSUME NEW w \in Workers, HandlerReturns(w)
     PROVE  CancelledNeverRestarts'
  BY <1>5 DEF HandlerReturns
<1>6. ASSUME NEW w \in Workers, HandlerThrows(w)
     PROVE  CancelledNeverRestarts'
  BY <1>6 DEF HandlerThrows
<1>7. ASSUME NEW w \in Workers, Complete(w)  PROVE CancelledNeverRestarts'
  BY <1>7 DEF Complete, CompleteRow, ReleaseLease
<1>8. ASSUME NEW w \in Workers, CompleteErrors(w)
     PROVE  CancelledNeverRestarts'
  BY <1>8 DEF CompleteErrors, CompleteRow, ReleaseLease
<1>9. ASSUME NEW w \in Workers, MarkCancelled(w)
     PROVE  CancelledNeverRestarts'
  BY <1>9 DEF MarkCancelled, ReleaseLease
<1>10. ASSUME NEW w \in Workers, FailReads(w)  PROVE CancelledNeverRestarts'
  BY <1>10 DEF FailReads
<1>11. ASSUME NEW w \in Workers, FailUpdates(w)  PROVE CancelledNeverRestarts'
  BY <1>11 DEF FailUpdates, ReleaseLease
<1>12. ASSUME NEW w \in Workers, SettlementErrors(w)
     PROVE  CancelledNeverRestarts'
  BY <1>12 DEF SettlementErrors
<1>13. ASSUME NEW w \in Workers, ReapRequeues(w)
     PROVE  CancelledNeverRestarts'
  BY <1>13 DEF ReapRequeues, ReapRows, Reapable
<1>14. ASSUME NEW w \in Workers, ReapInterrupts(w)
     PROVE  CancelledNeverRestarts'
  BY <1>14 DEF ReapInterrupts, ReapRows, Reapable
<1>15. ASSUME NEW w \in Workers, Crash(w)  PROVE CancelledNeverRestarts'
  BY <1>15 DEF Crash
<1>16. ASSUME NEW j \in Jobs, RequestCancellation(j)
     PROVE  CancelledNeverRestarts'
  BY <1>16 DEF RequestCancellation
<1>17. ASSUME NEW j \in Jobs, LeaseExpires(j)  PROVE CancelledNeverRestarts'
  BY <1>17 DEF LeaseExpires
<1>18. CASE MarketOpens
  BY <1>18 DEF MarketOpens
<1>19. CASE MarketCloses
  BY <1>19 DEF MarketCloses
<1>20. CASE UNCHANGED vars
  BY <1>20 DEF vars
<1>21. QED
  BY <1>1, <1>2, <1>3, <1>4, <1>5, <1>6, <1>7, <1>8, <1>9, <1>10, <1>11,
     <1>12, <1>13, <1>14, <1>15, <1>16, <1>17, <1>18, <1>19, <1>20 DEF Next,
     WorkerStep

(* Only the owner completes, and it runs the latest attempt.               *)
LEMMA SucceededStep ==
  ASSUME TypeOK, IdleHoldsNoJob, OwnedIffActive, OwnerRunsLatestAttempt,
         SettlementJustified, SucceededByLatestAttempt, [Next]_vars
  PROVE  SucceededByLatestAttempt'
<1> USE MaxAttemptsAssumption, NoJobAssumption, NoOwnerAssumption
<1> USE DEF TypeOK, vars, rowVars, loopVars, Status, Active, Terminal,
        Attempts, Never, IdleHoldsNoJob, OwnedIffActive,
        OwnerRunsLatestAttempt, SettlementJustified,
        SucceededByLatestAttempt, Goto, LeaveJob, CatchFailure, Owns,
        OwnerId
<1>1. ASSUME NEW w \in Workers, NEW j \in Jobs, Claim(w, j)
     PROVE  SucceededByLatestAttempt'
  BY <1>1 DEF Claim, Claimable, ClaimRow
<1>2. ASSUME NEW w \in Workers, NEW j \in Jobs, ClaimAnswerLost(w, j)
     PROVE  SucceededByLatestAttempt'
  BY <1>2 DEF ClaimAnswerLost, Claimable, ClaimRow
<1>3. ASSUME NEW w \in Workers, Heartbeat(w)  PROVE SucceededByLatestAttempt'
  BY <1>3 DEF Heartbeat, StopForCancellation, LoseLease
<1>4. ASSUME NEW w \in Workers, WriteResult(w)
     PROVE  SucceededByLatestAttempt'
  BY <1>4 DEF WriteResult, EvidenceLeaseHeld, LoseLease
<1>5. ASSUME NEW w \in Workers, HandlerReturns(w)
     PROVE  SucceededByLatestAttempt'
  BY <1>5 DEF HandlerReturns
<1>6. ASSUME NEW w \in Workers, HandlerThrows(w)
     PROVE  SucceededByLatestAttempt'
  BY <1>6 DEF HandlerThrows
<1>7. ASSUME NEW w \in Workers, Complete(w)  PROVE SucceededByLatestAttempt'
  BY <1>7 DEF Complete, CompleteRow, ReleaseLease
<1>8. ASSUME NEW w \in Workers, CompleteErrors(w)
     PROVE  SucceededByLatestAttempt'
  BY <1>8 DEF CompleteErrors, CompleteRow, ReleaseLease
<1>9. ASSUME NEW w \in Workers, MarkCancelled(w)
     PROVE  SucceededByLatestAttempt'
  BY <1>9 DEF MarkCancelled, ReleaseLease
<1>10. ASSUME NEW w \in Workers, FailReads(w)  PROVE SucceededByLatestAttempt'
  BY <1>10 DEF FailReads
<1>11. ASSUME NEW w \in Workers, FailUpdates(w)
     PROVE  SucceededByLatestAttempt'
  BY <1>11 DEF FailUpdates, ReleaseLease
<1>12. ASSUME NEW w \in Workers, SettlementErrors(w)
     PROVE  SucceededByLatestAttempt'
  BY <1>12 DEF SettlementErrors
<1>13. ASSUME NEW w \in Workers, ReapRequeues(w)
     PROVE  SucceededByLatestAttempt'
  BY <1>13 DEF ReapRequeues, ReapRows, Reapable
<1>14. ASSUME NEW w \in Workers, ReapInterrupts(w)
     PROVE  SucceededByLatestAttempt'
  BY <1>14 DEF ReapInterrupts, ReapRows, Reapable
<1>15. ASSUME NEW w \in Workers, Crash(w)  PROVE SucceededByLatestAttempt'
  BY <1>15 DEF Crash
<1>16. ASSUME NEW j \in Jobs, RequestCancellation(j)
     PROVE  SucceededByLatestAttempt'
  BY <1>16 DEF RequestCancellation
<1>17. ASSUME NEW j \in Jobs, LeaseExpires(j)  PROVE SucceededByLatestAttempt'
  BY <1>17 DEF LeaseExpires
<1>18. CASE MarketOpens
  BY <1>18 DEF MarketOpens
<1>19. CASE MarketCloses
  BY <1>19 DEF MarketCloses
<1>20. CASE UNCHANGED vars
  BY <1>20 DEF vars
<1>21. QED
  BY <1>1, <1>2, <1>3, <1>4, <1>5, <1>6, <1>7, <1>8, <1>9, <1>10, <1>11,
     <1>12, <1>13, <1>14, <1>15, <1>16, <1>17, <1>18, <1>19, <1>20 DEF Next,
     WorkerStep

-----------------------------------------------------------------------------
(* The layers together.                                                    *)

LEMMA InitInv == Init => IInv
<1> USE MaxAttemptsAssumption, NoJobAssumption, NoOwnerAssumption
<1>1. Init => TypeOK
  <2>1. Init => claimsPaused \in BOOLEAN
    BY Zenon DEF Init
  <2>. QED
    BY <2>1 DEF Init, TypeOK, Status, Attempts, Never, Loop, Categories
<1>2. Init => IdleHoldsNoJob /\ OwnedIffActive
  BY DEF Init, IdleHoldsNoJob, OwnedIffActive, Active
<1>3. Init => /\ AttemptsReached /\ OwnerRunsLatestAttempt
              /\ SettlementJustified /\ AskedIsFlagged
  BY DEF Init, AttemptsReached, OwnerRunsLatestAttempt, SettlementJustified,
         AskedIsFlagged, Owns
<1>4. Init => /\ QueuedIsClaimable /\ CancelledNeverRestarts
              /\ SucceededByLatestAttempt
  BY DEF Init, QueuedIsClaimable, CancelledNeverRestarts,
         SucceededByLatestAttempt
<1>. QED  BY <1>1, <1>2, <1>3, <1>4 DEF IInv

LEMMA InductiveStep == IInv /\ [Next]_vars => IInv'
BY IdleStep, TypeStep, OwnedStep, ReachedStep, OwnerStep, JustifiedStep,
   AskedStep, QueuedStep, CancelledStep, SucceededStep DEF IInv

LEMMA Invariance == Spec => []IInv
BY InitInv, InductiveStep, PTL DEF Spec

-----------------------------------------------------------------------------
(* The properties of the queue.                                            *)

(* Every column of research_job and every variable of a worker process     *)
(* keeps its type.                                                         *)
THEOREM TypeCorrect == Spec => []TypeOK
<1>. IInv => TypeOK
  BY DEF IInv
<1>. QED  BY Invariance, PTL

(* The settlement statements of research-job-repository.ts, which test only*)
(* id and lease_owner, can reach no queued and no settled row.             *)
THEOREM LeaseOwnership == Spec => []OwnedIffActive
<1>. IInv => OwnedIffActive
  BY DEF IInv
<1>. QED  BY Invariance, PTL

(* However many workers lose and take over leases, the process that owns a *)
(* row runs its latest attempt: fencing by owner is enough.                *)
THEOREM FencingByOwner == Spec => []OwnerRunsLatestAttempt
<1>. IInv => OwnerRunsLatestAttempt
  BY DEF IInv
<1>. QED  BY Invariance, PTL

(* complete publishes the result of the last attempt, never that of a      *)
(* worker whose lease was taken over.                                      *)
THEOREM PublishesLatest == Spec => []SucceededByLatestAttempt
<1>. IInv => SucceededByLatestAttempt
  BY DEF IInv
<1>. QED  BY Invariance, PTL

(* No job waits in the queue without an attempt left to claim it with.     *)
THEOREM NothingStranded == Spec => []QueuedIsClaimable
<1>. IInv => QueuedIsClaimable
  BY DEF IInv
<1>. QED  BY Invariance, PTL

(* An attempt claimed after the cancellation was asked never reaches its   *)
(* handler.                                                                *)
THEOREM CancellationHolds == Spec => []CancelledNeverRestarts
<1>. IInv => CancelledNeverRestarts
  BY DEF IInv
<1>. QED  BY Invariance, PTL

(* No step changes a row that is settled.                                  *)
LEMMA SettledStep ==
  ASSUME TypeOK, IdleHoldsNoJob, OwnedIffActive, NEW k \in Jobs, status[k]
         \in Terminal, [Next]_vars
  PROVE  SettledRow(k)
<1> USE MaxAttemptsAssumption, NoJobAssumption, NoOwnerAssumption
<1> USE DEF TypeOK, vars, rowVars, loopVars, Status, Active, Terminal,
        IdleHoldsNoJob, OwnedIffActive, SettledRow, Goto, LeaveJob,
        CatchFailure, Owns, OwnerId
<1>0. ASSUME NEW w \in Workers, pc[w] # "idle", Owns(w, current[w])
      PROVE  current[w] \in Jobs /\ status[current[w]] \in Active
  <2>1. current[w] \in Jobs
    BY <1>0
  <2>2. leaseOwner[current[w]] # NoOwner
    BY <1>0
  <2>. QED  BY <2>1, <2>2
<1>1. ASSUME NEW w \in Workers, NEW j \in Jobs, Claim(w, j)
     PROVE  SettledRow(k)
  BY <1>1 DEF Claim, Claimable, ClaimRow
<1>2. ASSUME NEW w \in Workers, NEW j \in Jobs, ClaimAnswerLost(w, j)
     PROVE  SettledRow(k)
  BY <1>2 DEF ClaimAnswerLost, Claimable, ClaimRow
<1>3. ASSUME NEW w \in Workers, Heartbeat(w)  PROVE SettledRow(k)
  BY <1>3 DEF Heartbeat, StopForCancellation, LoseLease
<1>4. ASSUME NEW w \in Workers, WriteResult(w)  PROVE SettledRow(k)
  BY <1>4 DEF WriteResult, EvidenceLeaseHeld, LoseLease
<1>5. ASSUME NEW w \in Workers, HandlerReturns(w)  PROVE SettledRow(k)
  BY <1>5 DEF HandlerReturns
<1>6. ASSUME NEW w \in Workers, HandlerThrows(w)  PROVE SettledRow(k)
  BY <1>6 DEF HandlerThrows
<1>7. ASSUME NEW w \in Workers, Complete(w)  PROVE SettledRow(k)
  BY <1>7, <1>0 DEF Complete, CompleteRow, ReleaseLease
<1>8. ASSUME NEW w \in Workers, CompleteErrors(w)  PROVE SettledRow(k)
  BY <1>8, <1>0 DEF CompleteErrors, CompleteRow, ReleaseLease
<1>9. ASSUME NEW w \in Workers, MarkCancelled(w)  PROVE SettledRow(k)
  BY <1>9, <1>0 DEF MarkCancelled, ReleaseLease
<1>10. ASSUME NEW w \in Workers, FailReads(w)  PROVE SettledRow(k)
  BY <1>10 DEF FailReads
<1>11. ASSUME NEW w \in Workers, FailUpdates(w)  PROVE SettledRow(k)
  BY <1>11, <1>0 DEF FailUpdates, ReleaseLease
<1>12. ASSUME NEW w \in Workers, SettlementErrors(w)  PROVE SettledRow(k)
  BY <1>12 DEF SettlementErrors
<1>13. ASSUME NEW w \in Workers, ReapRequeues(w)  PROVE SettledRow(k)
  BY <1>13 DEF ReapRequeues, ReapRows, Reapable
<1>14. ASSUME NEW w \in Workers, ReapInterrupts(w)  PROVE SettledRow(k)
  BY <1>14 DEF ReapInterrupts, ReapRows, Reapable
<1>15. ASSUME NEW w \in Workers, Crash(w)  PROVE SettledRow(k)
  BY <1>15 DEF Crash
<1>16. ASSUME NEW j \in Jobs, RequestCancellation(j)  PROVE SettledRow(k)
  BY <1>16 DEF RequestCancellation
<1>17. ASSUME NEW j \in Jobs, LeaseExpires(j)  PROVE SettledRow(k)
  BY <1>17 DEF LeaseExpires
<1>18. CASE MarketOpens
  BY <1>18 DEF MarketOpens
<1>19. CASE MarketCloses
  BY <1>19 DEF MarketCloses
<1>20. CASE UNCHANGED vars
  BY <1>20 DEF vars
<1>21. QED
  BY <1>1, <1>2, <1>3, <1>4, <1>5, <1>6, <1>7, <1>8, <1>9, <1>10, <1>11,
     <1>12, <1>13, <1>14, <1>15, <1>16, <1>17, <1>18, <1>19, <1>20 DEF Next,
     WorkerStep

(* Once SUCCEEDED, FAILED, CANCELLED or INTERRUPTED, a row is never changed *)
(* again by a late worker, a sweep or the operator.                        *)
THEOREM SettledIsFinal == Spec => SettledForGood
<1>1. IInv /\ [Next]_vars => \A j \in Jobs : status[j] \in Terminal => SettledRow(j)
  BY SettledStep DEF IInv
<1>. QED  BY <1>1, Invariance, PTL DEF Spec, SettledForGood, SettledRow

(* Evidence is written under the row lock of the latest attempt.           *)
LEMMA EvidenceStep ==
  ASSUME TypeOK, IdleHoldsNoJob, AttemptsReached, NEW k \in EvidenceJobs,
         NEW a \in Attempts, <<k, a>> \in written' \ written, [Next]_vars
  PROVE  EvidenceFenced(k, a)
<1> USE MaxAttemptsAssumption, NoJobAssumption, NoOwnerAssumption,
        KindsAssumption
<1> USE DEF TypeOK, vars, rowVars, loopVars, Status, Active, Terminal,
        Attempts, Never, IdleHoldsNoJob, AttemptsReached, EvidenceFenced,
        Goto, LeaveJob, CatchFailure, Owns, OwnerId
<1>1. ASSUME NEW w \in Workers, NEW j \in Jobs, Claim(w, j)
     PROVE  EvidenceFenced(k, a)
  BY <1>1 DEF Claim, Claimable, ClaimRow
<1>2. ASSUME NEW w \in Workers, NEW j \in Jobs, ClaimAnswerLost(w, j)
     PROVE  EvidenceFenced(k, a)
  BY <1>2 DEF ClaimAnswerLost, Claimable, ClaimRow
<1>3. ASSUME NEW w \in Workers, Heartbeat(w)  PROVE EvidenceFenced(k, a)
  BY <1>3 DEF Heartbeat, StopForCancellation, LoseLease
<1>4. ASSUME NEW w \in Workers, WriteResult(w)  PROVE EvidenceFenced(k, a)
  BY <1>4 DEF WriteResult, EvidenceLeaseHeld, LoseLease
<1>5. ASSUME NEW w \in Workers, HandlerReturns(w)  PROVE EvidenceFenced(k, a)
  BY <1>5 DEF HandlerReturns
<1>6. ASSUME NEW w \in Workers, HandlerThrows(w)  PROVE EvidenceFenced(k, a)
  BY <1>6 DEF HandlerThrows
<1>7. ASSUME NEW w \in Workers, Complete(w)  PROVE EvidenceFenced(k, a)
  BY <1>7 DEF Complete, CompleteRow, ReleaseLease
<1>8. ASSUME NEW w \in Workers, CompleteErrors(w)  PROVE EvidenceFenced(k, a)
  BY <1>8 DEF CompleteErrors, CompleteRow, ReleaseLease
<1>9. ASSUME NEW w \in Workers, MarkCancelled(w)  PROVE EvidenceFenced(k, a)
  BY <1>9 DEF MarkCancelled, ReleaseLease
<1>10. ASSUME NEW w \in Workers, FailReads(w)  PROVE EvidenceFenced(k, a)
  BY <1>10 DEF FailReads
<1>11. ASSUME NEW w \in Workers, FailUpdates(w)  PROVE EvidenceFenced(k, a)
  BY <1>11 DEF FailUpdates, ReleaseLease
<1>12. ASSUME NEW w \in Workers, SettlementErrors(w)
     PROVE  EvidenceFenced(k, a)
  BY <1>12 DEF SettlementErrors
<1>13. ASSUME NEW w \in Workers, ReapRequeues(w)  PROVE EvidenceFenced(k, a)
  BY <1>13 DEF ReapRequeues, ReapRows, Reapable
<1>14. ASSUME NEW w \in Workers, ReapInterrupts(w)  PROVE EvidenceFenced(k, a)
  BY <1>14 DEF ReapInterrupts, ReapRows, Reapable
<1>15. ASSUME NEW w \in Workers, Crash(w)  PROVE EvidenceFenced(k, a)
  BY <1>15 DEF Crash
<1>16. ASSUME NEW j \in Jobs, RequestCancellation(j)
     PROVE  EvidenceFenced(k, a)
  BY <1>16 DEF RequestCancellation
<1>17. ASSUME NEW j \in Jobs, LeaseExpires(j)  PROVE EvidenceFenced(k, a)
  BY <1>17 DEF LeaseExpires
<1>18. CASE MarketOpens
  BY <1>18 DEF MarketOpens
<1>19. CASE MarketCloses
  BY <1>19 DEF MarketCloses
<1>20. CASE UNCHANGED vars
  BY <1>20 DEF vars
<1>21. QED
  BY <1>1, <1>2, <1>3, <1>4, <1>5, <1>6, <1>7, <1>8, <1>9, <1>10, <1>11,
     <1>12, <1>13, <1>14, <1>15, <1>16, <1>17, <1>18, <1>19, <1>20 DEF Next,
     WorkerStep

(* lockEvidenceLease lets only the latest attempt of a running job that is *)
(* not being cancelled write evidence.                                     *)
THEOREM EvidenceIsFenced == Spec => EvidenceOnlyFromLatestAttempt
<1>1. IInv /\ [Next]_vars =>
        \A j \in EvidenceJobs : \A a \in Attempts :
          <<j, a>> \in written' \ written => EvidenceFenced(j, a)
  BY EvidenceStep DEF IInv
<1>. QED  BY <1>1, Invariance, PTL DEF Spec, EvidenceOnlyFromLatestAttempt

-----------------------------------------------------------------------------
(* The refinement.                                                         *)

\* What phaseOf says of one row.
PhaseMatches(j) ==
  /\ status[j] = "QUEUED"      => phaseOf[j] = "waiting"
  /\ status[j] \in Active      => phaseOf[j] = "active"
  /\ status[j] = "SUCCEEDED"   => phaseOf[j] = "succeeded"
  /\ status[j] = "FAILED"      => phaseOf[j] = "failed"
  /\ status[j] = "CANCELLED"   => phaseOf[j] = "cancelled"
  /\ status[j] = "INTERRUPTED" => phaseOf[j] = "interrupted"

(* An attempt count that is not below its maximum is at it.                *)
LEMMA AtTheLimit ==
  ASSUME NEW n \in 0 .. MaxAttempts, n >= MaxAttempts
  PROVE  n = MaxAttempts
BY MaxAttemptsAssumption

(* The refinement mapping is total on the statuses of the table.           *)
LEMMA Phases ==
  ASSUME NEW j \in Jobs
  PROVE  PhaseMatches(j) /\ PhaseMatches(j)'
BY DEF PhaseMatches, phaseOf, PhaseOf, Active

(* Every step moves every job as JobLifecycle allows, or leaves it alone.  *)
LEMMA LifecycleStep ==
  ASSUME IInv, NEW k \in Jobs, [Next]_vars
  PROVE  Lifecycle!JobStep(k) \/ Lifecycle!Rest(k)
<1> USE MaxAttemptsAssumption, NoJobAssumption, NoOwnerAssumption
<1> USE DEF IInv, TypeOK, vars, rowVars, loopVars, Status, Active, Terminal,
        Attempts, Never, IdleHoldsNoJob, OwnedIffActive,
        OwnerRunsLatestAttempt, SettlementJustified, Lifecycle!JobStep,
        Lifecycle!Begin, Lifecycle!PutBack, Lifecycle!Succeed,
        Lifecycle!Abandon, Lifecycle!AskStop, Lifecycle!Rest, PhaseMatches,
        Goto, LeaveJob, CatchFailure, Owns, OwnerId
<1>p. PhaseMatches(k) /\ PhaseMatches(k)'
  BY Phases
<1>0. ASSUME NEW w \in Workers, pc[w] # "idle", Owns(w, current[w])
      PROVE  /\ current[w] \in Jobs /\ status[current[w]] \in Active
             /\ attempt[w] = attemptCount[current[w]]
  <2>1. current[w] \in Jobs
    BY <1>0
  <2>2. leaseOwner[current[w]] # NoOwner
    BY <1>0
  <2>3. attempt[w] = attemptCount[current[w]]
    BY <1>0, <2>1
  <2>. QED  BY <2>1, <2>2, <2>3
<1>1. ASSUME NEW w \in Workers, NEW j \in Jobs, Claim(w, j)
     PROVE  Lifecycle!JobStep(k) \/ Lifecycle!Rest(k)
  BY <1>1, <1>p DEF Claim, Claimable, ClaimRow
<1>2. ASSUME NEW w \in Workers, NEW j \in Jobs, ClaimAnswerLost(w, j)
     PROVE  Lifecycle!JobStep(k) \/ Lifecycle!Rest(k)
  BY <1>2, <1>p DEF ClaimAnswerLost, Claimable, ClaimRow
<1>3. ASSUME NEW w \in Workers, Heartbeat(w)
     PROVE  Lifecycle!JobStep(k) \/ Lifecycle!Rest(k)
  BY <1>3, <1>p DEF Heartbeat, StopForCancellation, LoseLease
<1>4. ASSUME NEW w \in Workers, WriteResult(w)
     PROVE  Lifecycle!JobStep(k) \/ Lifecycle!Rest(k)
  BY <1>4, <1>p DEF WriteResult, EvidenceLeaseHeld, LoseLease
<1>5. ASSUME NEW w \in Workers, HandlerReturns(w)
     PROVE  Lifecycle!JobStep(k) \/ Lifecycle!Rest(k)
  BY <1>5, <1>p DEF HandlerReturns
<1>6. ASSUME NEW w \in Workers, HandlerThrows(w)
     PROVE  Lifecycle!JobStep(k) \/ Lifecycle!Rest(k)
  BY <1>6, <1>p DEF HandlerThrows
<1>7. ASSUME NEW w \in Workers, Complete(w)
     PROVE  Lifecycle!JobStep(k) \/ Lifecycle!Rest(k)
  BY <1>7, <1>0, <1>p DEF Complete, CompleteRow, ReleaseLease
<1>8. ASSUME NEW w \in Workers, CompleteErrors(w)
     PROVE  Lifecycle!JobStep(k) \/ Lifecycle!Rest(k)
  BY <1>8, <1>0, <1>p DEF CompleteErrors, CompleteRow, ReleaseLease
<1>9. ASSUME NEW w \in Workers, MarkCancelled(w)
     PROVE  Lifecycle!JobStep(k) \/ Lifecycle!Rest(k)
  <2>1. CASE Owns(w, current[w]) /\ k = current[w]
    <3>1. status[k] \in Active /\ cancellationRequested[k] = TRUE
      BY <1>9, <1>0, <2>1 DEF MarkCancelled
    <3>2. CASE UNCHANGED rowVars
      BY <1>p, <3>2
    <3>3. CASE /\ status' = [status EXCEPT ![k] = "CANCELLED"]
               /\ UNCHANGED <<attemptCount, cancellationRequested, resultRef>>
      <4>1. status'[k] = "CANCELLED"
        BY <3>3
      <4>. QED  BY <1>p, <3>1, <3>3, <4>1
    <3>. QED  BY <1>9, <2>1, <3>2, <3>3 DEF MarkCancelled
  <2>2. CASE ~(Owns(w, current[w]) /\ k = current[w])
    <3>1. Lifecycle!Rest(k)
      BY <1>9, <1>0, <1>p, <2>2 DEF MarkCancelled, ReleaseLease
    <3>. QED  BY <3>1
  <2>. QED  BY <2>1, <2>2
<1>10. ASSUME NEW w \in Workers, FailReads(w)
     PROVE  Lifecycle!JobStep(k) \/ Lifecycle!Rest(k)
  BY <1>10, <1>p DEF FailReads
<1>11. ASSUME NEW w \in Workers, FailUpdates(w)
     PROVE  Lifecycle!JobStep(k) \/ Lifecycle!Rest(k)
  <2>1. CASE Owns(w, current[w]) /\ k = current[w]
    <3>1. status[k] \in Active
      BY <1>11, <1>0, <2>1 DEF FailUpdates
    <3>0. status'[k] = IF pc[w] = "requeue" THEN "QUEUED" ELSE "FAILED"
      BY <1>11, <2>1 DEF FailUpdates
    <3>2. UNCHANGED <<attemptCount, cancellationRequested, resultRef>>
      BY <1>11, <2>1 DEF FailUpdates
    <3>3. CASE pc[w] = "requeue"
      <4>1. status'[k] = "QUEUED" /\ attemptCount[k] < MaxAttempts
        BY <2>1, <3>0, <3>3
      <4>2. Lifecycle!PutBack(k)
        BY <1>p, <3>1, <3>2, <4>1
      <4>. QED  BY <4>2
    <3>4. CASE pc[w] = "failed"
      <4>1. status'[k] = "FAILED"
        BY <3>0, <3>4
      <4>2. Lifecycle!Abandon(k)
        BY <1>p, <3>1, <3>2, <4>1
      <4>. QED  BY <4>2
    <3>. QED  BY <1>11, <3>3, <3>4 DEF FailUpdates
  <2>2. CASE ~(Owns(w, current[w]) /\ k = current[w])
    <3>1. Lifecycle!Rest(k)
      BY <1>11, <1>0, <1>p, <2>2 DEF FailUpdates, ReleaseLease
    <3>. QED  BY <3>1
  <2>. QED  BY <2>1, <2>2
<1>12. ASSUME NEW w \in Workers, SettlementErrors(w)
     PROVE  Lifecycle!JobStep(k) \/ Lifecycle!Rest(k)
  BY <1>12, <1>p DEF SettlementErrors
<1>13. ASSUME NEW w \in Workers, ReapRequeues(w)
     PROVE  Lifecycle!JobStep(k) \/ Lifecycle!Rest(k)
  BY <1>13, <1>p DEF ReapRequeues, ReapRows, Reapable
<1>14. ASSUME NEW w \in Workers, ReapInterrupts(w)
     PROVE  Lifecycle!JobStep(k) \/ Lifecycle!Rest(k)
  <2>1. CASE Reapable(k) /\ attemptCount[k] >= MaxAttempts
    <3>1. status[k] \in Active
      BY <2>1 DEF Reapable
    <3>0. attemptCount[k] = MaxAttempts
      <4>1. attemptCount[k] \in 0 .. MaxAttempts
        OBVIOUS
      <4>. HIDE DEF TypeOK
      <4>. QED  BY <2>1, <4>1, AtTheLimit
    <3>2. /\ status'[k] = "INTERRUPTED"
          /\ UNCHANGED <<attemptCount, cancellationRequested, resultRef>>
      BY <1>14, <2>1 DEF ReapInterrupts, ReapRows
    <3>. QED  BY <1>p, <3>0, <3>1, <3>2
  <2>2. CASE ~(Reapable(k) /\ attemptCount[k] >= MaxAttempts)
    <3>1. Lifecycle!Rest(k)
      BY <1>14, <1>0, <1>p, <2>2 DEF ReapInterrupts, ReapRows, Reapable
    <3>. QED  BY <3>1
  <2>. QED  BY <2>1, <2>2
<1>15. ASSUME NEW w \in Workers, Crash(w)
     PROVE  Lifecycle!JobStep(k) \/ Lifecycle!Rest(k)
  BY <1>15, <1>p DEF Crash
<1>16. ASSUME NEW j \in Jobs, RequestCancellation(j)
     PROVE  Lifecycle!JobStep(k) \/ Lifecycle!Rest(k)
  <2>1. CASE k = j
    <3>1. Lifecycle!AskStop(k)
      BY <1>16, <1>0, <1>p, <2>1 DEF RequestCancellation
    <3>. QED  BY <3>1
  <2>2. CASE ~(k = j)
    <3>1. Lifecycle!Rest(k)
      BY <1>16, <1>0, <1>p, <2>2 DEF RequestCancellation
    <3>. QED  BY <3>1
  <2>. QED  BY <2>1, <2>2
<1>17. ASSUME NEW j \in Jobs, LeaseExpires(j)
     PROVE  Lifecycle!JobStep(k) \/ Lifecycle!Rest(k)
  BY <1>17, <1>p DEF LeaseExpires
<1>18. CASE MarketOpens
  BY <1>18, <1>p DEF MarketOpens
<1>19. CASE MarketCloses
  BY <1>19, <1>p DEF MarketCloses
<1>20. CASE UNCHANGED vars
  BY <1>20, <1>p DEF vars
<1>21. QED
  BY <1>1, <1>2, <1>3, <1>4, <1>5, <1>6, <1>7, <1>8, <1>9, <1>10, <1>11,
     <1>12, <1>13, <1>14, <1>15, <1>16, <1>17, <1>18, <1>19, <1>20 DEF Next,
     WorkerStep

(* The queue, with all its workers, leases, sweeps and crashes, implements *)
(* the life of a job as its submitter sees it.                             *)
THEOREM Refinement == Spec => ImplementsLifecycle
<1>1. Init => Lifecycle!Init
  <2>1. ASSUME Init, NEW j \in Jobs
        PROVE  phaseOf[j] = "waiting"
    BY <2>1, Phases DEF PhaseMatches, Init
  <2>2. phaseOf = [j \in Jobs |-> phaseOf[j]]
    BY DEF phaseOf
  <2>3. ASSUME Init
        PROVE  phaseOf = [j \in Jobs |-> "waiting"]
    BY <2>1, <2>2, <2>3
  <2>. HIDE DEF phaseOf
  <2>. QED  BY <2>3 DEF Init, Lifecycle!Init
<1>2. IInv /\ [Next]_vars => [Lifecycle!Next]_(Lifecycle!jobVars)
  BY LifecycleStep DEF Lifecycle!Next
<1>. QED  BY <1>1, <1>2, Invariance, PTL DEF Spec, ImplementsLifecycle, Lifecycle!Spec
=============================================================================
