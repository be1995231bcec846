------------------------- MODULE TokenCallersProofs -------------------------
(* Proofs about the processes and the callers of TokenManager: what a        *)
(* process reports as interrupted was not its own, a rotation starts only    *)
(* when it is needed, and the retry after a 401 has a newer session.         *)
EXTENDS Integers, TokenManagerProofs

-----------------------------------------------------------------------------
(* The marker of the row and what a process has read of it.                *)

\* The processes that have read the marker.
Readers == {p \in Processes : priorRead[p]}

\* A process reads the marker before it writes one, and nobody has written
\* the marker of a process that is still to start.
ReadBeforeMarked ==
  /\ \A p \in Processes :
       /\ rotation[p] = "reading" => p \notin Readers
       /\ rotation[p] \notin {"none", "reading"} => p \in Readers
       /\ marker = Self(p) => p \in Readers
  /\ \A p \in Processes, n \in Nat : marker = <<p, n>> => n <= restarts[p]

\* What a step of process p can do to the marker and to what p knows of it.
Joins(p) ==
  /\ rotation[p] = "none" /\ Moves(p, IF p \in Readers THEN "listing" ELSE "reading")
  /\ UNCHANGED <<marker, Readers, prior, restarts>>
Learns(p) ==
  /\ rotation[p] = "reading" /\ Moves(p, "listing")
  /\ prior' = [prior EXCEPT ![p] = marker] /\ Readers' = Readers \cup {p}
  /\ UNCHANGED <<marker, restarts>>
Advances(p) ==
  /\ rotation[p] \notin {"none", "reading"}
  /\ \E r \in {"none", "marking", "redeeming", "redeemed", "committing"} : Moves(p, r)
  /\ MarkIfUnmarked(p) \/ marker' \in {marker, Unmarked}
  /\ UNCHANGED <<Readers, prior, restarts>>
Stops(p) ==
  /\ Moves(p, "none")
  /\ UNCHANGED <<marker, Readers, prior, restarts>>
Renews(p) ==
  /\ restarts' = [restarts EXCEPT ![p] = restarts[p] + 1]
  /\ Readers' = Readers \ {p}
  /\ prior' = [prior EXCEPT ![p] = Unmarked]
  /\ Moves(p, "none")
  /\ UNCHANGED marker

MarkerStep ==
  \/ \E p \in Processes : Joins(p) \/ Learns(p) \/ Advances(p) \/ Stops(p) \/ Renews(p)
  \/ UNCHANGED <<rotation, marker, Readers, prior, restarts>>

\* A rotation that gives up its candidate goes back to marking or ends.
LEMMA NextMoves ==
  ASSUME NEW p, NextCandidate(p)
  PROVE  \E r \in {"none", "marking"} : Moves(p, r)
BY DEF NextCandidate, FailRotation, ClearFlight, Moves

LEMMA MarkerEffects ==
  ASSUME ProcessTypes, [Next]_vars
  PROVE  MarkerStep
<1>. priorRead \in [Processes -> BOOLEAN]
  BY DEF ProcessTypes
<1>a. UNCHANGED priorRead => UNCHANGED Readers
  BY DEF Readers
<1> USE <1>a DEF MarkerStep, brokerVars, storeVars, processVars, managerVars
<1>1. ASSUME NEW p \in Processes, RotationStep(p)  PROVE MarkerStep
  <2>. UNCHANGED restarts
    BY <1>1 DEF RotationStep
  <2>1. CASE ReadMarker(p)
    <3>1. priorRead' = [priorRead EXCEPT ![p] = TRUE] /\ Readers' = Readers \cup {p}
      BY <2>1, Zenon DEF ReadMarker, NotesFirstMarker, Readers
    <3>. QED  BY <2>1, <3>1 DEF ReadMarker, NotesFirstMarker, Learns, Moves
  <2>2. CASE ListCandidates(p)
    BY <2>2 DEF ListCandidates, Advances, Moves
  <2>3. CASE ReadFails(p)
    BY <2>3 DEF ReadFails, FailRotation, ClearFlight, Stops, Moves
  <2>4. CASE BeginRotation(p)
    BY <2>4 DEF BeginRotation, Advances, Moves
  <2>5. CASE BeginRotationFails(p)
    BY <2>5, NextMoves DEF BeginRotationFails, Advances
  <2>6. CASE BrokerGrants(p)
    BY <2>6 DEF BrokerGrants, Advances, Moves
  <2>7. CASE GrantArrives(p)
    BY <2>7 DEF GrantArrives, Advances, Moves
  <2>8. CASE RefusalArrives(p) \/ OtherFailure(p)
    BY <2>8, NextMoves DEF RefusalArrives, OtherFailure, Advances
  <2>9. CASE TransientFailure(p)
    BY <2>9 DEF TransientFailure, FailRotation, ClearFlight, Advances, Moves
  <2>10. CASE CommitRotation(p)
    BY <2>10 DEF CommitRotation, ReplaceToken, ClearFlight, Advances, Moves
  <2>11. CASE CommitFails(p)
    BY <2>11 DEF CommitFails, ReplaceToken, FailRotation, ClearFlight, Advances, Moves
  <2>. QED  BY <1>1, <2>1, <2>2, <2>3, <2>4, <2>5, <2>6, <2>7, <2>8, <2>9,
         <2>10, <2>11 DEF RotationStep
<1>2. ASSUME NEW p \in Processes, SessionExpires(p) \/ BeginShutdown(p)  PROVE MarkerStep
  BY <1>2 DEF SessionExpires, BeginShutdown, flightVars
<1>3. ASSUME NEW p \in Processes, Restart(p) \/ Authorize(p)  PROVE MarkerStep
  <2>1. priorRead' = [priorRead EXCEPT ![p] = FALSE]
    BY <1>3 DEF Restart, Authorize, FreshProcess
  <2>2. Readers' = Readers \ {p}
    BY <2>1, Zenon DEF Readers
  <2>. QED  BY <1>3, <2>2 DEF Restart, Authorize, FreshProcess, ClearFlight, Renews, Moves
<1>4. ASSUME NEW c \in Clients, ClientStep(c)  PROVE MarkerStep
  <2>. UNCHANGED <<marker, Readers, prior, restarts>> /\ Home[c] \in Processes
    BY <1>4, HomeAssumption DEF ClientStep
  <2>1. UNCHANGED flightVars \/ JoinOrStart(Home[c])
    BY <1>4 DEF ClientStep, GetSession, BrokerRefuses, RequestEnds, RefreshAfterUnauthorized
  <2>2. UNCHANGED rotation \/ Joins(Home[c])
    BY <2>1 DEF flightVars, JoinOrStart, StartRotation, InFlight, Joins, Moves, Readers
  <2>. QED  BY <2>2
<1>5. ASSUME NEW n \in Tokens, BrokerRevokes(n)  PROVE MarkerStep
  BY <1>5 DEF BrokerRevokes, flightVars
<1>6. CASE UNCHANGED vars
  BY <1>6 DEF vars, flightVars
<1>. QED  BY <1>1, <1>2, <1>3, <1>4, <1>5, <1>6 DEF Next

LEMMA MarkerKept ==
  ASSUME TokenTypes, ProcessTypes, ReadBeforeMarked, PriorIsFromAnotherProcess, MarkerStep
  PROVE  ReadBeforeMarked' /\ PriorIsFromAnotherProcess'
<1> USE DEF ReadBeforeMarked, PriorIsFromAnotherProcess, Self, Moves
<1>. /\ rotation \in [Processes -> Rotation] /\ restarts \in [Processes -> 0 .. MaxRestarts]
     /\ prior \in [Processes -> Writers \cup {Unmarked}]
  BY DEF TokenTypes, ProcessTypes
<1>. Rotation = {"none", "reading", "listing", "marking", "redeeming", "redeemed", "committing"}
  BY DEF Rotation
<1>. \A p \in Processes, n \in Nat : Unmarked # <<p, n>>
  BY UnmarkedAssumption
<1>. \A p \in Processes : restarts[p] \in Nat
  <2>1. \A n \in 0 .. MaxRestarts : n \in Nat
    BY MaxRestartsAssumption
  <2>2. \A p \in Processes : restarts[p] \in 0 .. MaxRestarts
    BY Zenon
  <2>. QED  BY <2>1, <2>2
<1>1. ASSUME NEW p \in Processes, Joins(p)
      PROVE  ReadBeforeMarked' /\ PriorIsFromAnotherProcess'
  BY <1>1 DEF Joins
<1>2. ASSUME NEW p \in Processes, Learns(p)
      PROVE  ReadBeforeMarked' /\ PriorIsFromAnotherProcess'
  BY <1>2 DEF Learns
<1>3. ASSUME NEW p \in Processes, Advances(p)
      PROVE  ReadBeforeMarked' /\ PriorIsFromAnotherProcess'
  BY <1>3 DEF Advances, MarkIfUnmarked
<1>4. ASSUME NEW p \in Processes, Stops(p)
      PROVE  ReadBeforeMarked' /\ PriorIsFromAnotherProcess'
  BY <1>4 DEF Stops
<1>5. ASSUME NEW p \in Processes, Renews(p)
      PROVE  ReadBeforeMarked' /\ PriorIsFromAnotherProcess'
  <2>1. restarts[p] + 1 \in Nat /\ ~(restarts[p] + 1 <= restarts[p])
    OBVIOUS
  <2>2. marker # <<p, restarts[p] + 1>> /\ Unmarked # <<p, restarts[p] + 1>>
    BY <2>1
  <2>3. /\ marker' = marker /\ Readers' = Readers \ {p}
        /\ rotation' = [rotation EXCEPT ![p] = "none"]
        /\ restarts' = [restarts EXCEPT ![p] = restarts[p] + 1]
        /\ prior' = [prior EXCEPT ![p] = Unmarked]
    BY <1>5 DEF Renews
  <2>4. PriorIsFromAnotherProcess'
    BY <2>2, <2>3
  <2>5. \A q \in Processes, n \in Nat : marker' = <<q, n>> => n <= restarts'[q]
    BY <2>3
  <2>6. ASSUME NEW q \in Processes
        PROVE  /\ rotation'[q] = "reading" => q \notin Readers'
               /\ rotation'[q] \notin {"none", "reading"} => q \in Readers'
               /\ marker' = <<q, restarts'[q]>> => q \in Readers'
    BY <2>2, <2>3
  <2>. QED  BY <2>4, <2>5, <2>6
<1>6. CASE UNCHANGED <<rotation, marker, Readers, prior, restarts>>
  BY <1>6
<1>. QED  BY <1>1, <1>2, <1>3, <1>4, <1>5, <1>6 DEF MarkerStep

-----------------------------------------------------------------------------
(* The sessions of a process and of its callers.                           *)

\* The generation of the last session a rotation could have installed.
Installed(p) ==
  IF rotation[p] = "committing" THEN sessionGeneration[p] - 1 ELSE sessionGeneration[p]

\* Sessions are installed with growing generations, and a caller holds one
\* its process installed, the same as the present one if not an older one.
SessionsGrow ==
  /\ \A p \in Processes : session[p].generation <= Installed(p)
  /\ \A c \in Clients :
       \/ held[c].generation < session[Home[c]].generation
       \/ held[c] = session[Home[c]]

\* What the broker refused stays refused: it accepts only tokens it issues.
RefusedStaysRefused ==
  /\ \A n \in accepted : n <= issued
  /\ \A c \in Clients :
       held[c].token <= issued /\ (phase[c] = "refused" => held[c].token \notin accepted)

CallerInv == SessionsGrow /\ RefusedStaysRefused

\* What happens to callers while the sessions of the processes stay: they keep
\* theirs, take the present one, lose it, or have it refused.
CallersGoOn ==
  \A c \in Clients :
    /\ held'[c] \in {held[c], NoSession, session[Home[c]]}
    /\ phase'[c] = "refused" =>
         \/ held'[c].token \notin accepted
         \/ phase[c] = "refused" /\ held'[c] = held[c]

\* The sessions stay and the broker accepts what it issues.
SessionsStay ==
  /\ UNCHANGED session /\ CallersGoOn
  /\ issued <= issued'
  /\ \A n \in accepted' : n \in accepted \/ (issued < n /\ n <= issued')
  /\ \A p \in Processes : Installed(p) <= Installed(p)'

\* A process starts again, and so do its callers.
ProcessEnds(p) ==
  /\ issued <= issued' /\ UNCHANGED accepted
  /\ session' = [session EXCEPT ![p] = NoSession]
  /\ Installed(p)' = 0 /\ \A q \in Processes \ {p} : Installed(q)' = Installed(q)
  /\ \A c \in Clients :
       IF Home[c] = p THEN held'[c] = NoSession /\ phase'[c] = "idle"
                      ELSE held'[c] = held[c] /\ phase'[c] = phase[c]

\* What is known of a session: no session has no generation.
LEMMA SessionFields ==
  ASSUME NEW s \in Sessions
  PROVE  /\ s.generation \in 0 .. MaxGrants /\ s.generation \in Nat /\ s.token \in Nat
         /\ s # NoSession => s.generation > 0
         /\ NoSession.generation = 0 /\ NoSession.token = 0
BY MaxGrantsAssumption DEF Sessions, NoSession, Tokens, NoToken

LEMMA StayingKeeps ==
  ASSUME TokenInv, TokenInv', ProcessTypes, ClientTypes, CallerInv, SessionsStay
  PROVE  CallerInv'
<1>1. \A p \in Processes :
        session[p] \in Sessions /\ session[p].token <= issued /\ issued \in Nat /\ issued' \in Nat
  BY TokensAreNumbers DEF TokenInv, TokenTypes, AllIssued, Tokens
<1>2. accepted \subseteq Nat
  BY DEF ProcessTypes, Tokens
<1>3. SessionsGrow'
  <2>1. ASSUME NEW p \in Processes  PROVE session'[p].generation <= Installed(p)'
    <3>1. Installed(p) \in Int /\ Installed(p)' \in Int
      BY DEF Installed, TokenInv, TokenTypes
    <3>2. session'[p] = session[p] /\ session[p].generation \in Nat
      BY <1>1, SessionFields DEF SessionsStay
    <3>3. session[p].generation <= Installed(p) /\ Installed(p) <= Installed(p)'
      BY DEF CallerInv, SessionsGrow, SessionsStay
    <3>. QED  BY <3>1, <3>2, <3>3
  <2>2. ASSUME NEW c \in Clients
        PROVE  \/ held'[c].generation < session'[Home[c]].generation
               \/ held'[c] = session'[Home[c]]
    <3>1. held'[c] \in {held[c], NoSession, session[Home[c]]} /\ session' = session
      BY DEF SessionsStay, CallersGoOn
    <3>2. Home[c] \in Processes /\ session[Home[c]] \in Sessions
      BY <1>1, HomeAssumption
    <3>3. \/ held[c].generation < session[Home[c]].generation
          \/ held[c] = session[Home[c]]
      BY DEF CallerInv, SessionsGrow
    <3>. QED  BY <3>1, <3>2, <3>3, SessionFields
  <2>. QED  BY <2>1, <2>2 DEF SessionsGrow
<1>4. RefusedStaysRefused'
  <2>1. \A n \in accepted' : n <= issued'
    <3>1. issued \in Nat /\ issued' \in Nat
      BY TokensAreNumbers DEF TokenInv, TokenTypes, Tokens
    <3>2. ASSUME NEW n \in accepted'  PROVE n <= issued'
      <4>1. (n \in accepted \/ n <= issued') /\ issued <= issued'
        BY DEF SessionsStay
      <4>2. n \in accepted => n <= issued /\ n \in Nat
        BY <1>2 DEF CallerInv, RefusedStaysRefused
      <4>. QED  BY <3>1, <4>1, <4>2
    <3>. QED  BY <3>2
  <2>2. ASSUME NEW c \in Clients
        PROVE  held'[c].token <= issued' /\ (phase'[c] = "refused" => held'[c].token \notin accepted')
    <3>1. Home[c] \in Processes /\ held[c] \in Sessions
      BY HomeAssumption DEF ClientTypes
    <3>2. held'[c].token <= issued /\ held'[c].token \in Nat
      BY <1>1, <3>1, SessionFields DEF CallerInv, RefusedStaysRefused, SessionsStay, CallersGoOn
    <3>3. phase'[c] = "refused" => held'[c].token \notin accepted
      BY DEF CallerInv, RefusedStaysRefused, SessionsStay, CallersGoOn
    <3>. QED  BY <1>1, <3>1, <3>2, <3>3 DEF SessionsStay
  <2>. QED  BY <2>1, <2>2 DEF RefusedStaysRefused
<1>. QED  BY <1>3, <1>4 DEF CallerInv

LEMMA EndingKeeps ==
  ASSUME TokenInv, TokenInv', ProcessTypes, ClientTypes, CallerInv,
         NEW p \in Processes, ProcessEnds(p)
  PROVE  CallerInv'
<1>1. session \in [Processes -> Sessions] /\ issued \in Nat /\ issued' \in Nat
  BY TokensAreNumbers DEF TokenInv, TokenTypes, Tokens
<1>2. accepted \subseteq Nat
  BY DEF ProcessTypes, Tokens
<1>3. \A q \in Processes : session'[q] = IF q = p THEN NoSession ELSE session[q]
  BY <1>1 DEF ProcessEnds
<1>4. SessionsGrow'
  <2>1. \A q \in Processes : session'[q].generation <= Installed(q)'
    BY <1>3, SessionFields DEF CallerInv, SessionsGrow, ProcessEnds, Sessions
  <2>2. \A c \in Clients : \/ held'[c].generation < session'[Home[c]].generation
                          \/ held'[c] = session'[Home[c]]
    BY <1>3, HomeAssumption DEF CallerInv, SessionsGrow, ProcessEnds
  <2>. QED  BY <2>1, <2>2 DEF SessionsGrow
<1>5. RefusedStaysRefused'
  <2>1. ASSUME NEW c \in Clients
        PROVE  held'[c].token <= issued' /\ (phase'[c] = "refused" => held'[c].token \notin accepted')
    <3>1. held[c] \in Sessions /\ NoSession \in Sessions
      BY DEF ClientTypes, Sessions
    <3>2. held[c].token \in Nat /\ NoSession.token = 0
      BY <3>1, SessionFields
    <3>. QED  BY <1>1, <3>2 DEF CallerInv, RefusedStaysRefused, ProcessEnds
  <2>. QED  BY <1>1, <1>2, <2>1 DEF CallerInv, RefusedStaysRefused, ProcessEnds
<1>. QED  BY <1>4, <1>5 DEF CallerInv

\* The commit installs a session newer than any its process had.
LEMMA CommitKeeps ==
  ASSUME TokenInv, TokenInv', ProcessTypes, ClientTypes, CallerInv,
         NEW p \in Processes, CommitRotation(p)
  PROVE  /\ CallerInv'
         /\ \A c \in Joined(p) : held'[c].generation > held[c].generation
<1> DEFINE s == [token |-> grant[p], generation |-> sessionGeneration[p]]
<1>1. /\ rotation[p] = "committing" /\ UNCHANGED <<issued, accepted, sessionGeneration>>
      /\ session' = [session EXCEPT ![p] = s] /\ AnswerWithSession(p, s)
      /\ rotation' = [rotation EXCEPT ![p] = "none"]
  BY DEF CommitRotation, ClearFlight, brokerVars
<1>2. /\ session \in [Processes -> Sessions] /\ sessionGeneration \in [Processes -> 0 .. MaxGrants]
      /\ rotation \in [Processes -> Rotation] /\ issued \in Nat
      /\ grant[p] \in Nat /\ grant[p] <= issued /\ sessionGeneration[p] \in Nat
  BY <1>1, TokensAreNumbers DEF TokenInv, TokenTypes, AllIssued, PendingIsPrivate, Spent
<1>3. \A q \in Processes : session'[q] = IF q = p THEN s ELSE session[q]
  BY <1>1, <1>2
<1>4. \A c \in Clients :
        /\ held[c] \in Sessions /\ Home[c] \in Processes
        /\ held[c].generation \in Nat /\ session[Home[c]].generation \in Nat
  BY <1>2, HomeAssumption, SessionFields DEF ClientTypes
<1>5. \A c \in Clients :
        /\ held'[c] = IF c \in Joined(p) THEN s ELSE held[c]
        /\ c \in Joined(p) => Home[c] = p /\ phase'[c] # "refused"
        /\ c \notin Joined(p) => phase'[c] = phase[c]
  BY <1>1 DEF AnswerWithSession, Joined
<1>6. \A c \in Clients : Home[c] = p => held[c].generation < s.generation
  <2>1. session[p].generation <= sessionGeneration[p] - 1 /\ session[p].generation \in Nat
    BY <1>1, <1>2, SessionFields DEF CallerInv, SessionsGrow, Installed
  <2>2. \A c \in Clients : Home[c] = p => held[c].generation <= session[p].generation
    BY <1>4 DEF CallerInv, SessionsGrow
  <2>. QED  BY <1>2, <1>4, <2>1, <2>2
<1>7. SessionsGrow'
  <2>1. ASSUME NEW q \in Processes  PROVE session'[q].generation <= Installed(q)'
    <3>1. CASE q = p
      BY <1>1, <1>2, <1>3, <3>1 DEF Installed
    <3>2. CASE q # p
      BY <1>1, <1>2, <1>3, <3>2 DEF CallerInv, SessionsGrow, Installed
    <3>. QED  BY <3>1, <3>2
  <2>2. ASSUME NEW c \in Clients
        PROVE  \/ held'[c].generation < session'[Home[c]].generation
               \/ held'[c] = session'[Home[c]]
    BY <1>3, <1>4, <1>5, <1>6 DEF CallerInv, SessionsGrow
  <2>. QED  BY <2>1, <2>2 DEF SessionsGrow
<1>8. RefusedStaysRefused'
  BY <1>1, <1>2, <1>5 DEF CallerInv, RefusedStaysRefused
<1>. QED  BY <1>5, <1>6, <1>7, <1>8 DEF CallerInv, Joined

LEMMA InstalledGrows ==
  ASSUME TokenTypes, UNCHANGED sessionGeneration,
         UNCHANGED rotation \/ \E p \in Processes, r \in Rotation \ {"committing"} : Moves(p, r)
  PROVE  \A q \in Processes : Installed(q) <= Installed(q)'
<1>1. \A q \in Processes : sessionGeneration[q] \in Nat
  BY TokensAreNumbers
<1>2. \A q \in Processes : rotation'[q] = "committing" => rotation[q] = "committing"
  BY DEF TokenTypes, Moves
<1>. QED  BY <1>1, <1>2 DEF Installed

LEMMA NextGoesOn ==
  ASSUME NEW p, \/ NextCandidate(p) \/ AnswerWithError(p)
                \/ UNCHANGED clientVars \/ UNCHANGED <<phase, held>>
  PROVE  CallersGoOn
<1>1. CASE UNCHANGED <<phase, held>>
  BY <1>1 DEF CallersGoOn
<1>2. CASE AnswerWithError(p)
  BY <1>2 DEF AnswerWithError, CallersGoOn
<1>. QED  BY <1>1, <1>2 DEF NextCandidate, FailRotation, clientVars

\* A step of a rotation other than its commit.
LEMMA RotationEffects ==
  ASSUME TokenInv, NEW p \in Processes, RotationStep(p), ~CommitRotation(p)
  PROVE  SessionsStay
<1>. TokenTypes /\ issued \in Nat
  BY TokensAreNumbers DEF TokenInv
<1> USE DEF brokerVars, storeVars, managerVars
<1>1. CASE GrantArrives(p)
  <2>1. \A q \in Processes : Installed(q)' = Installed(q)
    <3>1. /\ rotation[p] = "redeemed" /\ Moves(p, "committing")
          /\ sessionGeneration' = [sessionGeneration EXCEPT ![p] = sessionGeneration[p] + 1]
      BY <1>1 DEF GrantArrives, Moves
    <3>2. /\ rotation \in [Processes -> Rotation] /\ sessionGeneration[p] \in Nat
          /\ sessionGeneration \in [Processes -> 0 .. MaxGrants]
      BY TokensAreNumbers DEF TokenTypes
    <3>. QED  BY <3>1, <3>2 DEF Installed, Moves
  <2>2. \A q \in Processes : Installed(q) \in Int
    BY TokensAreNumbers DEF Installed
  <2>. QED  BY <1>1, <2>1, <2>2, NextGoesOn DEF GrantArrives, SessionsStay
<1>2. CASE ~GrantArrives(p)
  <2>1. UNCHANGED <<session, sessionGeneration>>
    BY <1>2 DEF RotationStep, ReadMarker, ListCandidates, ReadFails, BeginRotation,
       BeginRotationFails, BrokerGrants, RefusalArrives, TransientFailure, OtherFailure, CommitFails
  <2>2. \E r \in Rotation \ {"committing"} : Moves(p, r)
    <3>1. {"none", "listing", "marking", "redeeming", "redeemed"} \subseteq Rotation \ {"committing"}
      BY DEF Rotation
    <3>. QED  BY <1>2, <3>1, NextMoves DEF RotationStep, ReadMarker, ListCandidates, ReadFails,
       BeginRotation, BeginRotationFails, BrokerGrants, RefusalArrives, TransientFailure,
       OtherFailure, CommitFails, FailRotation, ClearFlight, Moves
  <2>3. CallersGoOn
    BY <1>2, NextGoesOn DEF RotationStep, ReadMarker, ListCandidates, ReadFails,
       BeginRotation, BeginRotationFails, BrokerGrants, RefusalArrives, TransientFailure,
       OtherFailure, CommitFails, FailRotation
  <2>4. \/ UNCHANGED <<issued, accepted>>
        \/ issued' = issued + 1 /\ accepted' = accepted \cup {issued'}
    BY <1>2 DEF RotationStep, ReadMarker, ListCandidates, ReadFails, BeginRotation,
       BeginRotationFails, BrokerGrants, RefusalArrives, TransientFailure, OtherFailure, CommitFails
  <2>5. issued <= issued' /\ \A n \in accepted' : n \in accepted \/ (issued < n /\ n <= issued')
    BY <2>4
  <2>. QED  BY <2>1, <2>2, <2>3, <2>5, InstalledGrows DEF SessionsStay
<1>. QED  BY <1>1, <1>2

LEMMA CallerEffects ==
  ASSUME TokenInv, ProcessTypes, ClientTypes, [Next]_vars
  PROVE  \/ SessionsStay
         \/ \E p \in Processes : ProcessEnds(p) \/ CommitRotation(p)
<1>. TokenTypes /\ issued \in Nat
  BY TokensAreNumbers DEF TokenInv
<1> USE DEF brokerVars, storeVars, processVars, managerVars
<1>1. ASSUME NEW p \in Processes, RotationStep(p)  PROVE SessionsStay \/ CommitRotation(p)
  BY <1>1, RotationEffects
<1>2. ASSUME UNCHANGED <<issued, session, sessionGeneration, rotation, clientVars>>,
             accepted' \subseteq accepted
      PROVE  SessionsStay
  <2>1. CallersGoOn
    BY <1>2, NextGoesOn
  <2>. QED  BY <1>2, <2>1, InstalledGrows DEF SessionsStay
<1>3. ASSUME NEW p \in Processes, SessionExpires(p) \/ BeginShutdown(p)  PROVE SessionsStay
  BY <1>2, <1>3 DEF SessionExpires, BeginShutdown, flightVars
<1>4. ASSUME NEW p \in Processes, Restart(p) \/ Authorize(p)  PROVE ProcessEnds(p)
  <2>1. /\ session' = [session EXCEPT ![p] = NoSession]
        /\ sessionGeneration' = [sessionGeneration EXCEPT ![p] = 0]
        /\ rotation' = [rotation EXCEPT ![p] = "none"]
        /\ phase' = [c \in Clients |-> IF Home[c] = p THEN "idle" ELSE phase[c]]
        /\ held' = [c \in Clients |-> IF Home[c] = p THEN NoSession ELSE held[c]]
    BY <1>4 DEF Restart, Authorize, FreshProcess, ClearFlight
  <2>2. issued <= issued' /\ UNCHANGED accepted
    BY <1>4 DEF Restart, Authorize
  <2>3. Installed(p)' = 0 /\ \A q \in Processes \ {p} : Installed(q)' = Installed(q)
    BY <2>1 DEF Installed, TokenTypes
  <2>. QED  BY <2>1, <2>2, <2>3 DEF ProcessEnds
<1>5. ASSUME NEW c \in Clients, ClientStep(c)  PROVE SessionsStay
  <2>1. UNCHANGED <<issued, accepted, session, sessionGeneration>> /\ Home[c] \in Processes
    BY <1>5, HomeAssumption DEF ClientStep
  <2>2. UNCHANGED flightVars \/ JoinOrStart(Home[c])
    BY <1>5 DEF ClientStep, GetSession, BrokerRefuses, RequestEnds, RefreshAfterUnauthorized
  <2>3. UNCHANGED rotation \/ \E r \in Rotation \ {"committing"} : Moves(Home[c], r)
    BY <2>2 DEF flightVars, JoinOrStart, StartRotation, Moves, Rotation
  <2>4. \E label \in Phase, s \in {held[c], NoSession, session[Home[c]]} :
          /\ GoTo(c, label, s)
          /\ label = "refused" => s.token \notin accepted
    BY <1>5 DEF ClientStep, GetSession, BrokerRefuses, RequestEnds, RefreshAfterUnauthorized, Phase
  <2>5. CallersGoOn
    BY <2>4 DEF GoTo, CallersGoOn, ClientTypes
  <2>. QED  BY <2>1, <2>3, <2>5, InstalledGrows DEF SessionsStay
<1>6. ASSUME NEW n \in Tokens, BrokerRevokes(n)  PROVE SessionsStay
  BY <1>2, <1>6 DEF BrokerRevokes, flightVars
<1>7. CASE UNCHANGED vars
  BY <1>2, <1>7 DEF vars, flightVars
<1>. QED  BY <1>1, <1>3, <1>4, <1>5, <1>6, <1>7 DEF Next

-----------------------------------------------------------------------------
(* The theorems.                                                           *)

CallersInv ==
  /\ TokenInv /\ ProcessTypes /\ ClientTypes
  /\ ReadBeforeMarked /\ PriorIsFromAnotherProcess /\ CallerInv

LEMMA InitCallers == Init => CallersInv
<1>. SUFFICES ASSUME Init PROVE CallersInv
  OBVIOUS
<1>1. TokenInv
  BY TokenInit
<1>2. ProcessTypes /\ ClientTypes
  BY DEF Init, All, ProcessTypes, ClientTypes, Verdicts, Phase, Sessions
<1>3. ReadBeforeMarked /\ PriorIsFromAnotherProcess
  <2>1. \A p \in Processes, n \in Nat : Unmarked # <<p, n>>
    BY UnmarkedAssumption
  <2>. QED  BY <2>1 DEF Init, All, ReadBeforeMarked, PriorIsFromAnotherProcess, Self
<1>4. CallerInv
  <2>1. \A c \in Clients : Home[c] \in Processes
    BY HomeAssumption
  <2>. QED  BY <2>1 DEF Init, All, CallerInv, SessionsGrow, RefusedStaysRefused, Installed,
       NoSession, NoToken
<1>. QED  BY <1>1, <1>2, <1>3, <1>4 DEF CallersInv

LEMMA StepCallers == CallersInv /\ [Next]_vars => CallersInv'
<1>. SUFFICES ASSUME CallersInv, [Next]_vars PROVE CallersInv'
  OBVIOUS
<1>1. TokenInv /\ TokenInv' /\ TokenTypes /\ TokenTypes' /\ Counted
  BY TokenNext DEF CallersInv, TokenInv
<1>2. ProcessTypes' /\ ClientTypes'
  BY <1>1, ProcessTypesStep, ClientTypesStep DEF CallersInv
<1>3. ReadBeforeMarked' /\ PriorIsFromAnotherProcess'
  BY <1>1, MarkerEffects, MarkerKept DEF CallersInv
<1>4. CallerInv'
  BY <1>1, CallerEffects, StayingKeeps, EndingKeeps, CommitKeeps DEF CallersInv
<1>. QED  BY <1>1, <1>2, <1>3, <1>4 DEF CallersInv

LEMMA CallersInvariant == Spec => []CallersInv
BY InitCallers, StepCallers, PTL DEF Spec

(* What a process reports as an interrupted rotation was never its own: it *)
(* reads the marker once, before it writes it.                             *)
THEOREM ReportsOnlyOthers == Spec => []PriorIsFromAnotherProcess
BY CallersInvariant, PTL DEF CallersInv

\* A rotation starts for a caller with no usable session, or one the broker refused.
LEMMA StartIsNeeded ==
  ASSUME CallersInv, [Next]_vars, NEW p \in Processes,
         rotation[p] = "none", rotation'[p] # "none"
  PROVE  ~Usable(p) \/ session[p].token \notin accepted
<1>. rotation \in [Processes -> Rotation]
  BY DEF CallersInv, TokenInv, TokenTypes
<1>1. PICK c \in Clients : ClientStep(c)
  <2>1. ASSUME NEW q \in Processes, RotationStep(q)  PROVE FALSE
    <3>1. rotation[q] # "none" /\ \E r \in Rotation : Moves(q, r)
      BY <2>1, NextMoves DEF RotationStep, ReadMarker, ListCandidates, ReadFails, BeginRotation,
         BeginRotationFails, BrokerGrants, GrantArrives, RefusalArrives, TransientFailure,
         OtherFailure, CommitRotation, CommitFails, FailRotation, ClearFlight, Moves, Rotation
    <3>. QED  BY <3>1 DEF Moves
  <2>2. ASSUME NEW q \in Processes, SessionExpires(q) \/ BeginShutdown(q)  PROVE FALSE
    BY <2>2 DEF SessionExpires, BeginShutdown, flightVars
  <2>3. ASSUME NEW q \in Processes, Restart(q) \/ Authorize(q)  PROVE FALSE
    BY <2>3 DEF Restart, Authorize, FreshProcess, ClearFlight
  <2>4. ASSUME NEW n \in Tokens, BrokerRevokes(n)  PROVE FALSE
    BY <2>4 DEF BrokerRevokes, flightVars
  <2>5. ~UNCHANGED vars
    BY DEF vars, flightVars
  <2>. QED  BY <2>1, <2>2, <2>3, <2>4, <2>5 DEF Next
<1>2. Home[c] = p /\ (GetSession(c) \/ RefreshAfterUnauthorized(c)) /\ ~UNCHANGED flightVars
  <2>1. ~UNCHANGED flightVars
    BY DEF flightVars
  <2>2. GetSession(c) \/ RefreshAfterUnauthorized(c)
    BY <1>1, <2>1 DEF ClientStep, BrokerRefuses, RequestEnds
  <2>3. JoinOrStart(Home[c])
    BY <2>1, <2>2 DEF GetSession, RefreshAfterUnauthorized
  <2>. QED  BY <2>1, <2>2, <2>3 DEF JoinOrStart, StartRotation
<1>3. CASE GetSession(c)
  BY <1>2, <1>3 DEF GetSession
<1>4. CASE RefreshAfterUnauthorized(c)
  <2>1. phase[c] = "refused" /\ ~Superseded(c)
    BY <1>2, <1>4 DEF RefreshAfterUnauthorized, InFlight
  <2>2. held[c].token \notin accepted
    BY <2>1 DEF CallersInv, CallerInv, RefusedStaysRefused
  <2>3. CASE session[p] = NoSession
    BY <2>3 DEF Usable
  <2>4. CASE session[p] # NoSession
    <3>1. ~(session[p].generation > held[c].generation)
      BY <1>2, <2>1, <2>4 DEF Superseded
    <3>2. held[c] = session[p]
      BY <1>2, <3>1 DEF CallersInv, CallerInv, SessionsGrow
    <3>. QED  BY <2>2, <3>2
  <2>. QED  BY <2>3, <2>4
<1>. QED  BY <1>2, <1>3, <1>4

(* A process starts a rotation only when it has no session, an expired one *)
(* or one the broker refuses: late 401s of older sessions rotate nothing.  *)
THEOREM RotationsAreNeeded == Spec => OnlyNeededRotations
<1>1. CallersInv /\ [Next]_vars =>
        [\A p \in Processes : rotation[p] = "none" /\ rotation'[p] # "none" =>
           ~Usable(p) \/ session[p].token \notin accepted]_vars
  BY StartIsNeeded
<1>. QED  BY <1>1, CallersInvariant, PTL DEF Spec, OnlyNeededRotations

(* The retry after a 401 takes a session installed after the refused one.  *)
THEOREM RetriesAreNewer == Spec => RetriesWithNewerSession
<1>1. CallersInv /\ [Next]_vars =>
        [\A c \in Clients :
           phase[c] \in {"refused", "rejoining"} /\ phase'[c] = "resent" =>
             held'[c].generation > held[c].generation]_vars
  <2> SUFFICES ASSUME CallersInv, Next, NEW c \in Clients,
                      phase[c] \in {"refused", "rejoining"}, phase'[c] = "resent"
               PROVE  held'[c].generation > held[c].generation
    OBVIOUS
  <2>. phase \in [Clients -> Phase]
    BY DEF CallersInv, ClientTypes
  <2>1. ASSUME NEW p, AnswerWithError(p)  PROVE FALSE
    BY <2>1 DEF AnswerWithError
  <2>2. ASSUME NEW p, NextCandidate(p)  PROVE FALSE
    BY <2>1, <2>2 DEF NextCandidate, FailRotation, clientVars
  <2>3. ASSUME NEW p \in Processes, RotationStep(p)  PROVE CommitRotation(p)
    BY <2>1, <2>2, <2>3 DEF RotationStep, ReadMarker, ListCandidates, ReadFails, BeginRotation,
       BeginRotationFails, BrokerGrants, GrantArrives, RefusalArrives, TransientFailure,
       OtherFailure, CommitFails, FailRotation, clientVars
  <2>4. ASSUME NEW p \in Processes, RotationStep(p)
        PROVE  held'[c].generation > held[c].generation
    <3>1. CommitRotation(p)
      BY <2>3, <2>4
    <3>2. c \in Joined(p)
      BY <3>1 DEF CommitRotation, AnswerWithSession
    <3>3. TokenInv'
      BY TokenNext DEF CallersInv
    <3>. QED  BY <3>1, <3>2, <3>3, CommitKeeps DEF CallersInv
  <2>5. ASSUME NEW p \in Processes, \/ SessionExpires(p) \/ BeginShutdown(p)
                                    \/ Restart(p) \/ Authorize(p)
        PROVE  FALSE
    BY <2>5 DEF SessionExpires, BeginShutdown, Restart, Authorize, FreshProcess, clientVars
  <2>6. ASSUME NEW n \in Tokens, BrokerRevokes(n)  PROVE FALSE
    BY <2>6 DEF BrokerRevokes, clientVars
  <2>7. ASSUME NEW d \in Clients, ClientStep(d)
        PROVE  held'[c].generation > held[c].generation
    <3>1. c = d /\ RefreshAfterUnauthorized(c)
      BY <2>7 DEF ClientStep, GetSession, BrokerRefuses, RequestEnds,
         RefreshAfterUnauthorized, GoTo
    <3>2. Superseded(c) /\ held'[c] = session[Home[c]]
      BY <3>1 DEF RefreshAfterUnauthorized, GoTo, CallersInv, ClientTypes
    <3>. QED  BY <3>2 DEF Superseded
  <2>. QED  BY <2>4, <2>5, <2>6, <2>7 DEF Next
<1>. QED  BY <1>1, CallersInvariant, PTL DEF Spec, RetriesWithNewerSession

=============================================================================
