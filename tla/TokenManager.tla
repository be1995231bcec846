---------------------------- MODULE TokenManager ----------------------------
(***************************************************************************)
(* Questrade credentials: the token manager (questrade/token-manager.ts),  *)
(* the row it rotates (market-data/postgres-token-store.ts) and the callers*)
(* that retry once after a 401 (withSession in questrade/adapter.ts).      *)
(*                                                                         *)
(* A refresh token is single use: redeeming it makes the broker issue a    *)
(* grant, numbered here by its order of issue and standing for its access  *)
(* token and for the refresh token that replaces the spent one.  The API   *)
(* and the maintenance commands are separate processes, each with its own  *)
(* manager, over the one market_data_auth row.  A statement sent to        *)
(* PostgreSQL, a redeem reaching the broker and its answer reaching the    *)
(* process are one step each.                                              *)
(***************************************************************************)
EXTENDS Naturals, Sequences

CONSTANTS
  Processes,      \* programs that share the row (API, maintenance command)
  Clients,        \* callers of withSession
  Home,           \* the process each client runs in
  MaxGrants,      \* bound: tokens ever issued
  MaxRestarts,    \* bound: restarts of one process
  Unmarked        \* NULL in rotation_started_at

ASSUME MaxGrantsAssumption == MaxGrants \in Nat \ {0}
ASSUME MaxRestartsAssumption == MaxRestarts \in Nat
ASSUME UnmarkedAssumption == Unmarked \notin Processes \X Nat
ASSUME HomeAssumption == Home \in [Clients -> Processes]

VARIABLES
  \* the broker (external): the only refresh token it still redeems, how many
  \* it issued, and the grants whose access token it accepts
  live, issued, accepted,
  \* the market_data_auth row; marker is rotation_started_at
  current, previous, marker,
  \* one process: restarts, the token of its environment, shutdown, and the
  \* fields of its QuestradeTokenManager
  restarts, bootstrapToken, shutdown,
  session, fresh, sessionGeneration, priorRead, prior,
  rotation,       \* where rotateSession() is; "none": no refreshInFlight
  todo, grant,    \* its remaining candidates and the grant it received
  verdict,        \* how the last rotation of this process ended
  \* one client: its progress and the session it sends its request with
  phase, held,
  diedMidRotation \* history: processes that ended with a rotation in flight

brokerVars  == <<live, issued, accepted>>
storeVars   == <<current, previous, marker>>
processVars == <<restarts, bootstrapToken>>
managerVars == <<session, fresh, sessionGeneration, priorRead, prior>>
flightVars  == <<rotation, todo, grant, verdict>>
clientVars  == <<phase, held>>
vars == <<brokerVars, storeVars, processVars, shutdown, managerVars,
          flightVars, clientVars, diedMidRotation>>

Tokens     == 1 .. MaxGrants
NoToken    == 0
NoSession  == [token |-> NoToken, generation |-> 0]
Sessions   == [token : Tokens, generation : 1 .. MaxGrants] \cup {NoSession}
\* rotation_started_at is modelled by the process that wrote it.
Writers    == Processes \X (0 .. MaxRestarts)
Rotation   == {"none", "reading", "listing", "marking", "redeeming",
               "redeemed", "committing"}
Verdicts   == {"none", "renewed", "transient", "uncertain", "reauthorize",
               "storeError"}
Phase      == {"idle", "awaiting", "sent", "refused", "rejoining", "resent"}

Self(p)        == <<p, restarts[p]>>
Candidate(p)   == Head(todo[p])
InFlight(p)    == rotation[p] # "none"

TypeOK ==
  /\ live \in Tokens /\ issued \in Tokens /\ accepted \subseteq Tokens
  /\ current \in Tokens /\ previous \in Tokens \cup {NoToken}
  /\ marker \in Writers \cup {Unmarked}
  /\ restarts \in [Processes -> 0 .. MaxRestarts]
  /\ bootstrapToken \in [Processes -> Tokens]
  /\ shutdown \in [Processes -> {"up", "settling", "closing"}]
  /\ session \in [Processes -> Sessions]
  /\ fresh \in [Processes -> BOOLEAN]
  /\ sessionGeneration \in [Processes -> 0 .. MaxGrants]
  /\ priorRead \in [Processes -> BOOLEAN]
  /\ prior \in [Processes -> Writers \cup {Unmarked}]
  /\ rotation \in [Processes -> Rotation]
  /\ todo \in [Processes -> Seq(Tokens)]
  /\ grant \in [Processes -> Tokens \cup {NoToken}]
  /\ verdict \in [Processes -> Verdicts]
  /\ phase \in [Clients -> Phase]
  /\ held \in [Clients -> Sessions]
  /\ diedMidRotation \subseteq Writers

All(x) == [p \in Processes |-> x]

\* initialize(): the row starts from the token of the environment.
Init ==
  /\ live = 1 /\ issued = 1 /\ accepted = {}
  /\ current = 1 /\ previous = NoToken /\ marker = Unmarked
  /\ restarts = All(0) /\ bootstrapToken = All(1) /\ shutdown = All("up")
  /\ session = All(NoSession) /\ fresh = All(FALSE) /\ sessionGeneration = All(0)
  /\ priorRead = All(FALSE) /\ prior = All(Unmarked)
  /\ rotation = All("none") /\ todo = All(<<>>) /\ grant = All(NoToken)
  /\ verdict = All("none")
  /\ phase = [c \in Clients |-> "idle"] /\ held = [c \in Clients |-> NoSession]
  /\ diedMidRotation = {}

-----------------------------------------------------------------------------
(* rotateSession(): at most one per process, joined by every caller.       *)

\* Mutant: columns that are NULL are not filtered out.
CandidatesWithNull(p) == <<current, previous, bootstrapToken[p]>>

\* readCandidates(): current, previous, bootstrap; each token once.
Candidates(p) ==
  <<current>>
    \o (IF previous \in {NoToken, current} THEN <<>> ELSE <<previous>>)
    \o (IF bootstrapToken[p] \in {current, previous} THEN <<>>
        ELSE <<bootstrapToken[p]>>)

\* refresh() when no rotation is in flight.
StartRotation(p) ==
  /\ rotation' = [rotation EXCEPT ![p] = IF priorRead[p] THEN "listing"
                                                         ELSE "reading"]
  /\ UNCHANGED <<todo, grant, verdict>>

\* refresh(): the caller joins the rotation in flight or starts one.
JoinOrStart(p) == IF InFlight(p) THEN UNCHANGED flightVars ELSE StartRotation(p)

\* The promise settles: the finally clause clears refreshInFlight.
ClearFlight(p, result) ==
  /\ rotation' = [rotation EXCEPT ![p] = "none"]
  /\ todo' = [todo EXCEPT ![p] = <<>>]
  /\ grant' = [grant EXCEPT ![p] = NoToken]
  /\ verdict' = [verdict EXCEPT ![p] = result]

\* A shutdown waiting in settle() goes on when the promise settles.
EndSettle(p) ==
  shutdown' = [shutdown EXCEPT ![p] = IF @ = "settling" THEN "closing" ELSE @]

\* The callers of process p that await refreshInFlight.
Joined(p) ==
  {c \in Clients : Home[c] = p /\ phase[c] \in {"awaiting", "rejoining"}}

\* Every caller awaiting the rotation resumes, with its session s ...
AnswerWithSession(p, s) ==
  LET joined == Joined(p) IN
  /\ phase' = [c \in Clients |->
                 IF c \notin joined THEN phase[c]
                 ELSE IF phase[c] = "awaiting" THEN "sent" ELSE "resent"]
  /\ held' = [c \in Clients |-> IF c \in joined THEN s ELSE held[c]]

\* Mutant: the callers that came with a 401 are left waiting.
AnswerFirstCallers(p) ==
  LET joined == {c \in Clients : Home[c] = p /\ phase[c] = "awaiting"} IN
  /\ phase' = [c \in Clients |-> IF c \in joined THEN "idle" ELSE phase[c]]
  /\ held' = [c \in Clients |-> IF c \in joined THEN NoSession ELSE held[c]]

\* ... or with its error, which reaches the caller of withSession.
AnswerWithError(p) ==
  LET joined == Joined(p) IN
  /\ phase' = [c \in Clients |-> IF c \in joined THEN "idle" ELSE phase[c]]
  /\ held' = [c \in Clients |-> IF c \in joined THEN NoSession ELSE held[c]]

\* Mutant: settle() awaits the rotation without its catch.
FailRotationNotShutdown(p, result) ==
  /\ ClearFlight(p, result)
  /\ UNCHANGED shutdown
  /\ AnswerWithError(p)

FailRotation(p, result) ==
  /\ ClearFlight(p, result)
  /\ EndSettle(p)
  /\ AnswerWithError(p)

\* The loop of rotateSession goes to the next candidate, or gives up with
\* QuestradeReauthorizationRequiredError.
NextCandidate(p) ==
  IF Len(todo[p]) > 1
  THEN /\ rotation' = [rotation EXCEPT ![p] = "marking"]
       /\ todo' = [todo EXCEPT ![p] = Tail(@)]
       /\ grant' = [grant EXCEPT ![p] = NoToken]
       /\ UNCHANGED <<verdict, shutdown, clientVars>>
  ELSE FailRotation(p, "reauthorize")

\* Mutant: the marker is read again at every rotation.
NotesEveryMarker(p) ==
  /\ prior' = [prior EXCEPT ![p] = marker]
  /\ priorRead' = priorRead

NotesFirstMarker(p) ==
  /\ prior' = [prior EXCEPT ![p] = marker]
  /\ priorRead' = [priorRead EXCEPT ![p] = TRUE]

\* interruptedRotationAt(), once per process.
ReadMarker(p) ==
  /\ rotation[p] = "reading"
  /\ NotesFirstMarker(p)
  /\ rotation' = [rotation EXCEPT ![p] = "listing"]
  /\ UNCHANGED <<brokerVars, storeVars, shutdown, session, fresh,
                 sessionGeneration, todo, grant, verdict, clientVars>>

ListCandidates(p) ==
  /\ rotation[p] = "listing"
  /\ todo' = [todo EXCEPT ![p] = Candidates(p)]
  /\ rotation' = [rotation EXCEPT ![p] = "marking"]
  /\ UNCHANGED <<brokerVars, storeVars, shutdown, managerVars,
                 grant, verdict, clientVars>>

\* Either read fails: the rotation rejects before any redeem.
ReadFails(p) ==
  /\ rotation[p] \in {"reading", "listing"}
  /\ FailRotation(p, "storeError")
  /\ UNCHANGED <<brokerVars, storeVars, managerVars>>

\* Mutant: beginRotation writes nothing.
MarkNothing(p) == UNCHANGED marker

\* beginRotation(): the marker keeps the time of the oldest open rotation.
MarkIfUnmarked(p) == marker' = IF marker = Unmarked THEN Self(p) ELSE marker

BeginRotation(p) ==
  /\ rotation[p] = "marking"
  /\ MarkIfUnmarked(p)
  /\ rotation' = [rotation EXCEPT ![p] = "redeeming"]
  /\ UNCHANGED <<brokerVars, current, previous, shutdown,
                 managerVars, todo, grant, verdict, clientVars>>

\* beginRotation() rejects, applied or not: its error is not one of the two
\* the loop rethrows.
BeginRotationFails(p) ==
  /\ rotation[p] = "marking"
  /\ \/ MarkIfUnmarked(p)
     \/ UNCHANGED marker
  /\ NextCandidate(p)
  /\ UNCHANGED <<brokerVars, current, previous, managerVars>>

-----------------------------------------------------------------------------
(* redeem(): the broker spends the token before its answer travels back.   *)

\* The broker (external) redeems its live token and issues the next grant.
BrokerGrants(p) ==
  /\ rotation[p] = "redeeming" /\ Candidate(p) = live
  /\ issued < MaxGrants
  /\ issued' = issued + 1
  /\ live' = issued'
  /\ accepted' = accepted \cup {issued'}
  /\ grant' = [grant EXCEPT ![p] = issued']
  /\ rotation' = [rotation EXCEPT ![p] = "redeemed"]
  /\ UNCHANGED <<storeVars, shutdown, managerVars, todo, verdict,
                 clientVars>>

\* toSession() numbers a valid grant before anything is persisted.
GrantArrives(p) ==
  /\ rotation[p] = "redeemed"
  /\ sessionGeneration' = [sessionGeneration EXCEPT ![p] = @ + 1]
  /\ rotation' = [rotation EXCEPT ![p] = "committing"]
  /\ UNCHANGED <<brokerVars, storeVars, shutdown, session, fresh,
                 priorRead, prior, todo, grant, verdict, clientVars>>

\* The broker refuses a token it no longer redeems.
RefusalArrives(p) ==
  /\ rotation[p] = "redeeming" /\ Candidate(p) # live
  /\ NextCandidate(p)
  /\ UNCHANGED <<brokerVars, storeVars, managerVars>>

\* A timeout, a 429 or a 5xx, whether or not the token was spent.
TransientFailure(p) ==
  /\ rotation[p] \in {"redeeming", "redeemed"}
  /\ FailRotation(p, "transient")
  /\ UNCHANGED <<brokerVars, storeVars, managerVars>>

\* Any other error: no connection, an unreadable or invalid grant.
OtherFailure(p) ==
  /\ rotation[p] \in {"redeeming", "redeemed"}
  /\ NextCandidate(p)
  /\ UNCHANGED <<brokerVars, storeVars, managerVars>>

\* The check of rotate() against the row as it is now.
KnownToStore(p) == Candidate(p) \in {current, previous, bootstrapToken[p]}

\* Mutant: the spent token is written back as the current one.
ReplaceBackwards(p) ==
  /\ current' = Candidate(p)
  /\ previous' = grant[p]
  /\ marker' = Unmarked

ReplaceToken(p) ==
  /\ current' = grant[p]
  /\ previous' = Candidate(p)
  /\ marker' = Unmarked

\* rotate() commits and the session is installed.
CommitRotation(p) ==
  /\ rotation[p] = "committing" /\ KnownToStore(p)
  /\ ReplaceToken(p)
  /\ LET s == [token |-> grant[p], generation |-> sessionGeneration[p]] IN
       /\ session' = [session EXCEPT ![p] = s]
       /\ AnswerWithSession(p, s)
  /\ fresh' = [fresh EXCEPT ![p] = TRUE]
  /\ ClearFlight(p, "renewed")
  /\ EndSettle(p)
  /\ UNCHANGED <<brokerVars, sessionGeneration, priorRead, prior>>

\* rotate() rejects: the row changed, a statement failed, or the COMMIT
\* was applied and its answer lost.
CommitFails(p) ==
  /\ rotation[p] = "committing"
  /\ \/ UNCHANGED storeVars
     \/ KnownToStore(p) /\ ReplaceToken(p)
  /\ FailRotation(p, "uncertain")
  /\ UNCHANGED <<brokerVars, managerVars>>

-----------------------------------------------------------------------------
(* withSession(): a request, and one retry after a 401.                    *)

GoTo(c, label, s) ==
  /\ phase' = [phase EXCEPT ![c] = label]
  /\ held' = [held EXCEPT ![c] = s]

Usable(p) == session[p] # NoSession /\ fresh[p]

\* getSession().
GetSession(c) ==
  LET p == Home[c] IN
  /\ phase[c] = "idle"
  /\ IF Usable(p) THEN GoTo(c, "sent", session[p]) /\ UNCHANGED flightVars
                  ELSE GoTo(c, "awaiting", NoSession) /\ JoinOrStart(p)

\* The broker (external) refuses the access token; the 401 is on its way.
BrokerRefuses(c) ==
  /\ phase[c] = "sent" /\ held[c].token \notin accepted
  /\ GoTo(c, "refused", held[c])
  /\ UNCHANGED flightVars

\* The request ends for its caller: an answer, another error, an abort, or
\* a second 401, which propagates.
RequestEnds(c) ==
  /\ phase[c] \in {"sent", "refused", "resent"}
  /\ GoTo(c, "idle", NoSession)
  /\ UNCHANGED flightVars

\* Mutant: the generation of the refused session is not compared.
NeverSuperseded(c) == FALSE

\* Mutant: the refused session itself passes for a newer one.
SupersededBySame(c) ==
  session[Home[c]] # NoSession /\ session[Home[c]].generation >= held[c].generation

\* refreshAfterUnauthorized: the installed session is newer than the refused.
Superseded(c) ==
  session[Home[c]] # NoSession /\ session[Home[c]].generation > held[c].generation

RefreshAfterUnauthorized(c) ==
  LET p == Home[c] IN
  /\ phase[c] = "refused"
  /\ IF ~InFlight(p) /\ Superseded(c)
     THEN GoTo(c, "resent", session[p]) /\ UNCHANGED flightVars
     ELSE GoTo(c, "rejoining", held[c]) /\ JoinOrStart(p)

-----------------------------------------------------------------------------
(* Time, revocations, shutdown and restarts.                               *)

\* The broker (external) stops accepting an access token.
BrokerRevokes(n) ==
  /\ n \in accepted
  /\ accepted' = accepted \ {n}
  /\ UNCHANGED <<live, issued, storeVars, processVars, shutdown, managerVars,
                 flightVars, clientVars, diedMidRotation>>

\* The clock passes expiresAt - expirySkewMs.
SessionExpires(p) ==
  /\ Usable(p)
  /\ fresh' = [fresh EXCEPT ![p] = FALSE]
  /\ UNCHANGED <<brokerVars, storeVars, processVars, shutdown, session,
                 sessionGeneration, priorRead, prior, flightVars, clientVars,
                 diedMidRotation>>

\* SIGTERM: shutdown() comes to settle().
BeginShutdown(p) ==
  /\ shutdown[p] = "up" /\ restarts[p] < MaxRestarts
  /\ shutdown' = [shutdown EXCEPT ![p] = IF InFlight(p) THEN "settling"
                                                        ELSE "closing"]
  /\ UNCHANGED <<brokerVars, storeVars, processVars, managerVars, flightVars,
                 clientVars, diedMidRotation>>

\* The next process of p, started with token b in its environment.
FreshProcess(p, b) ==
  /\ restarts' = [restarts EXCEPT ![p] = @ + 1]
  /\ bootstrapToken' = [bootstrapToken EXCEPT ![p] = b]
  /\ shutdown' = [shutdown EXCEPT ![p] = "up"]
  /\ session' = [session EXCEPT ![p] = NoSession]
  /\ fresh' = [fresh EXCEPT ![p] = FALSE]
  /\ sessionGeneration' = [sessionGeneration EXCEPT ![p] = 0]
  /\ priorRead' = [priorRead EXCEPT ![p] = FALSE]
  /\ prior' = [prior EXCEPT ![p] = Unmarked]
  /\ ClearFlight(p, "none")
  /\ phase' = [c \in Clients |-> IF Home[c] = p THEN "idle" ELSE phase[c]]
  /\ held' = [c \in Clients |-> IF Home[c] = p THEN NoSession ELSE held[c]]
  /\ diedMidRotation' = IF InFlight(p) THEN diedMidRotation \cup {Self(p)}
                                       ELSE diedMidRotation

\* A kill at any point, or process.exit(0) at the end of shutdown().
Restart(p) ==
  /\ restarts[p] < MaxRestarts
  /\ FreshProcess(p, bootstrapToken[p])
  /\ UNCHANGED <<brokerVars, storeVars>>

\* The operator generates a token and restarts the process with it.  No
\* other process is mid-rotation while the operator recovers the account.
Authorize(p) ==
  /\ restarts[p] < MaxRestarts /\ issued < MaxGrants
  /\ verdict[p] = "reauthorize"
  /\ \A q \in Processes : ~InFlight(q)
  /\ issued' = issued + 1
  /\ live' = issued'
  /\ FreshProcess(p, issued')
  /\ UNCHANGED <<accepted, storeVars>>

RotationStep(p) ==
  /\ \/ ReadMarker(p) \/ ListCandidates(p) \/ ReadFails(p)
     \/ BeginRotation(p) \/ BeginRotationFails(p)
     \/ BrokerGrants(p) \/ GrantArrives(p) \/ RefusalArrives(p)
     \/ TransientFailure(p) \/ OtherFailure(p)
     \/ CommitRotation(p) \/ CommitFails(p)
  /\ UNCHANGED <<processVars, diedMidRotation>>

ClientStep(c) ==
  /\ \/ GetSession(c) \/ BrokerRefuses(c) \/ RequestEnds(c)
     \/ RefreshAfterUnauthorized(c)
  /\ UNCHANGED <<brokerVars, storeVars, processVars, shutdown, managerVars,
                 diedMidRotation>>

Next ==
  \/ \E p \in Processes :
       \/ RotationStep(p) \/ SessionExpires(p) \/ BeginShutdown(p)
       \/ Restart(p) \/ Authorize(p)
  \/ \E c \in Clients : ClientStep(c)
  \/ \E n \in Tokens : BrokerRevokes(n)

Spec == Init /\ [][Next]_vars

\* A statement and a redeem end within their timeouts, so a rotation in
\* flight always takes its next step.
FairSpec == Spec /\ \A p \in Processes : WF_vars(RotationStep(p))

-----------------------------------------------------------------------------
(* Properties.                                                             *)

\* Whenever no stored token can redeem any more, the row says that a
\* rotation was left open: the loss of the account never goes unmarked
\* (beginRotation before redeem, cleared only with the replacement).
StrandedIsMarked ==
  live \notin {current, previous} \cup {bootstrapToken[p] : p \in Processes}
    => marker # Unmarked

\* A session is served only when the token that renews it is the stored one:
\* a crash of a process that serves never costs the account (rotate before
\* install in redeem).
ServedIsRenewable ==
  \A p \in Processes :
    session[p] # NoSession /\ session[p].token = live => current = live

\* The marker reported as evidence was left behind by an earlier process
\* (interruptedRotationAt is read once, before this one marks its own).
PriorIsFromAnotherProcess ==
  \A p \in Processes : prior[p] # Self(p)

\* A process starts a rotation only when it has no session, an expired one
\* or one the broker refuses: a late 401 of an older session rotates nothing.
OnlyNeededRotations ==
  [][\A p \in Processes :
       rotation[p] = "none" /\ rotation'[p] # "none" =>
         ~Usable(p) \/ session[p].token \notin accepted]_vars

\* The retry after a 401 never repeats the session that was refused.
RetriesWithNewerSession ==
  [][\A c \in Clients :
       phase[c] \in {"refused", "rejoining"} /\ phase'[c] = "resent" =>
         held'[c].generation > held[c].generation]_vars

\* Whoever waits for a session is answered, and a shutdown waiting for a
\* rotation goes on.
WaitsEnd ==
  /\ \A c \in Clients :
       phase[c] \in {"awaiting", "rejoining"} ~> phase[c] \notin {"awaiting", "rejoining"}
  /\ \A p \in Processes : shutdown[p] = "settling" ~> shutdown[p] # "settling"

\* token-manager.ts:28: reauthorization is required only when no stored
\* credential redeems any more.
ReauthorizationMeansRejected ==
  [][\A p \in Processes :
       verdict[p] # "reauthorize" /\ verdict'[p] = "reauthorize" =>
         live' \notin {current', previous', bootstrapToken'[p]}]_vars

\* token-manager.ts:14: the interrupted rotation a process reports is one
\* whose process died in the middle of it.
PriorMeansDeath ==
  \A p \in Processes : prior[p] # Unmarked => prior[p] \in diedMidRotation
=============================================================================
