------------------------- MODULE TokenManagerProofs -------------------------
(***************************************************************************)
(* Proofs about TokenManager, for any number of processes and callers: the *)
(* account is never lost unmarked, and a session is served only when the   *)
(* token that renews it is the stored one.                                 *)
(*                                                                         *)
(* The steps of the system are first sorted by what they do to the tokens  *)
(* (StepEffects); the invariants are then shown over these effects.        *)
(***************************************************************************)
EXTENDS TokenManager, TLAPS

\* Where the tokens are, and who may still present or store them.
tokenVars == <<live, issued, current, previous, marker, restarts,
               bootstrapToken, session, sessionGeneration, rotation, todo, grant>>

\* TypeOK of tokenVars, and of the other variables.
TokenTypes ==
  /\ live \in Tokens /\ issued \in Tokens
  /\ current \in Tokens /\ previous \in Tokens \cup {NoToken}
  /\ marker \in Writers \cup {Unmarked}
  /\ restarts \in [Processes -> 0 .. MaxRestarts]
  /\ bootstrapToken \in [Processes -> Tokens]
  /\ session \in [Processes -> Sessions]
  /\ sessionGeneration \in [Processes -> 0 .. MaxGrants]
  /\ rotation \in [Processes -> Rotation]
  /\ todo \in [Processes -> Seq(Tokens)]
  /\ grant \in [Processes -> Tokens \cup {NoToken}]
ProcessTypes ==
  /\ accepted \subseteq Tokens
  /\ shutdown \in [Processes -> {"up", "settling", "closing"}]
  /\ fresh \in [Processes -> BOOLEAN]
  /\ priorRead \in [Processes -> BOOLEAN]
  /\ prior \in [Processes -> Writers \cup {Unmarked}]
  /\ verdict \in [Processes -> Verdicts]
  /\ diedMidRotation \subseteq Writers
ClientTypes == phase \in [Clients -> Phase] /\ held \in [Clients -> Sessions]

\* A rotation beyond its reads has a candidate; the generation a process
\* counts stays behind the grants the broker issued.
Counted ==
  \A p \in Processes :
    /\ rotation[p] \in {"marking", "redeeming", "redeemed", "committing"}
         => todo[p] # <<>>
    /\ rotation[p] \in {"redeemed", "committing"} => grant[p] \in Tokens
    /\ rotation[p] = "committing" => sessionGeneration[p] >= 1
    /\ sessionGeneration[p] < issued
    /\ rotation[p] = "redeemed" => sessionGeneration[p] + 1 < issued

Elements(s) == {s[i] : i \in 1 .. Len(s)}

\* The broker issued every token anyone holds.
AllIssued ==
  /\ live <= issued /\ current <= issued /\ previous <= issued
  /\ \A p \in Processes :
       /\ bootstrapToken[p] <= issued /\ session[p].token <= issued
       /\ \A t \in Elements(todo[p]) : t <= issued

Spent(p) == rotation[p] \in {"redeemed", "committing"}

\* While a replacement is on its way to the store, it is the live token, it
\* is known to that rotation only, and there is no second such rotation.
PendingIsPrivate ==
  \A p \in Processes : Spent(p) =>
    /\ grant[p] = live /\ live # current /\ live # previous
    /\ \A q \in Processes :
         /\ Spent(q) => p = q
         /\ live # bootstrapToken[q] /\ live # session[q].token
         /\ live \notin Elements(todo[q])

\* The row is marked before its live token is presented to the broker.
MarkedBeforeRedeem ==
  \A p \in Processes :
    rotation[p] = "redeeming" /\ Candidate(p) = live => marker # Unmarked

TokenInv == /\ TokenTypes /\ Counted /\ AllIssued /\ PendingIsPrivate
            /\ MarkedBeforeRedeem /\ StrandedIsMarked /\ ServedIsRenewable

-----------------------------------------------------------------------------
(* What a step of process p can do to the tokens.                          *)

Moves(p, r) == rotation' = [rotation EXCEPT ![p] = r]

\* It reads on (refresh, interruptedRotationAt) ...
Reads(p) ==
  /\ \E r \in {"reading", "listing"} : Moves(p, r)
  /\ UNCHANGED <<live, issued, current, previous, marker, restarts,
                 bootstrapToken, session, sessionGeneration, todo, grant>>

\* ... lists the candidates ...
Lists(p) ==
  /\ Moves(p, "marking")
  /\ todo' = [todo EXCEPT ![p] = Candidates(p)]
  /\ UNCHANGED <<live, issued, current, previous, marker, restarts,
                 bootstrapToken, session, sessionGeneration, grant>>

\* ... marks the row ...
Marks(p) ==
  /\ rotation[p] = "marking"
  /\ MarkIfUnmarked(p)
  /\ Moves(p, "redeeming")
  /\ UNCHANGED <<live, issued, current, previous, restarts,
                 bootstrapToken, session, sessionGeneration, todo, grant>>

\* ... gives up its candidate: the rotation fails or goes to a later one ...
Retreats(p) ==
  /\ MarkIfUnmarked(p) \/ UNCHANGED marker
  /\ \E s \in Seq(Tokens), r \in {"marking", "none"} :
       /\ Moves(p, r)
       /\ todo' = [todo EXCEPT ![p] = s]
       /\ r = "marking" => s # <<>>
       /\ Elements(s) \subseteq Elements(todo[p])
  /\ grant' = [grant EXCEPT ![p] = NoToken]
  /\ UNCHANGED <<live, issued, current, previous, restarts,
                 bootstrapToken, session, sessionGeneration>>

\* ... is granted a token ...
IsGranted(p) ==
  /\ rotation[p] = "redeeming" /\ Candidate(p) = live
  /\ issued < MaxGrants
  /\ issued' = issued + 1 /\ live' = issued + 1
  /\ grant' = [grant EXCEPT ![p] = issued + 1]
  /\ Moves(p, "redeemed")
  /\ UNCHANGED <<current, previous, marker, restarts, bootstrapToken,
                 session, sessionGeneration, todo>>

\* ... numbers the session ...
Numbers(p) ==
  /\ rotation[p] = "redeemed"
  /\ sessionGeneration' = [sessionGeneration EXCEPT ![p] = sessionGeneration[p] + 1]
  /\ Moves(p, "committing")
  /\ UNCHANGED <<live, issued, current, previous, marker, restarts,
                 bootstrapToken, session, todo, grant>>

\* ... stores the replacement, with or without installing the session ...
Replaces(p) ==
  /\ rotation[p] = "committing"
  /\ ReplaceToken(p)
  /\ \/ UNCHANGED session
     \/ session' = [session EXCEPT ![p] =
                      [token |-> grant[p], generation |-> sessionGeneration[p]]]
  /\ Moves(p, "none")
  /\ todo' = [todo EXCEPT ![p] = <<>>]
  /\ grant' = [grant EXCEPT ![p] = NoToken]
  /\ UNCHANGED <<live, issued, restarts, bootstrapToken, sessionGeneration>>

\* ... starts again ...
StartsAgain(p) ==
  /\ restarts[p] < MaxRestarts
  /\ restarts' = [restarts EXCEPT ![p] = restarts[p] + 1]
  /\ session' = [session EXCEPT ![p] = NoSession]
  /\ sessionGeneration' = [sessionGeneration EXCEPT ![p] = 0]
  /\ Moves(p, "none")
  /\ todo' = [todo EXCEPT ![p] = <<>>]
  /\ grant' = [grant EXCEPT ![p] = NoToken]
  /\ UNCHANGED <<current, previous, marker>>

KeepsTokens(p) == StartsAgain(p) /\ UNCHANGED <<live, issued, bootstrapToken>>

\* ... with the token an operator generated.
GetsToken(p) ==
  /\ StartsAgain(p)
  /\ issued < MaxGrants
  /\ \A q \in Processes : ~InFlight(q)
  /\ issued' = issued + 1 /\ live' = issued + 1
  /\ bootstrapToken' = [bootstrapToken EXCEPT ![p] = issued + 1]

Effect(p) == \/ Reads(p) \/ Lists(p) \/ Marks(p) \/ Retreats(p) \/ IsGranted(p)
             \/ Numbers(p) \/ Replaces(p) \/ KeepsTokens(p) \/ GetsToken(p)

TokenStep == (\E p \in Processes : Effect(p)) \/ UNCHANGED tokenVars

-----------------------------------------------------------------------------
(* Sequences: the head is an element, the tail adds none.                  *)
LEMMA HeadIsElement ==
  ASSUME NEW S, NEW s \in Seq(S), s # <<>>
  PROVE  Head(s) \in Elements(s)
<1>1. Len(s) # 0 /\ Head(s) = s[1]
  OBVIOUS
<1>. QED  BY <1>1 DEF Elements

LEMMA TailElements ==
  ASSUME NEW S, NEW s \in Seq(S), Len(s) > 1
  PROVE  Tail(s) \in Seq(S) /\ Tail(s) # <<>> /\ Elements(Tail(s)) \subseteq Elements(s)
<1>1. Tail(s) \in Seq(S) /\ Len(Tail(s)) = Len(s) - 1
  OBVIOUS
<1>2. ASSUME NEW i \in 1 .. Len(Tail(s))
      PROVE  Tail(s)[i] \in Elements(s)
  <2>1. i + 1 \in 1 .. Len(s) /\ Tail(s)[i] = s[i + 1]
    BY <1>1
  <2>. QED  BY <2>1 DEF Elements
<1>3. Len(Tail(s)) # 0
  BY <1>1
<1>4. Len(<<>>) = 0
  OBVIOUS
<1>5. Tail(s) # <<>>
  BY <1>3, <1>4, Zenon
<1>. QED  BY <1>1, <1>2, <1>5 DEF Elements

LEMMA NoElements == Elements(<<>>) = {}
BY DEF Elements

LEMMA ElementsInSet ==
  ASSUME NEW S, NEW s \in Seq(S)
  PROVE  Elements(s) \subseteq S
BY DEF Elements

LEMMA SessionToken ==
  ASSUME NEW s \in Sessions
  PROVE  s.token \in 0 .. MaxGrants
<1>1. CASE s = NoSession
  BY <1>1, MaxGrantsAssumption DEF NoSession, NoToken
<1>2. CASE s \in [token : Tokens, generation : 1 .. MaxGrants]
  BY <1>2, MaxGrantsAssumption DEF Tokens
<1>. QED  BY <1>1, <1>2 DEF Sessions

\* The numbers TokenTypes speaks of.
LEMMA TokensAreNumbers ==
  ASSUME TokenTypes
  PROVE  /\ live \in Nat /\ issued \in Nat /\ current \in Nat /\ previous \in Nat
         /\ \A p \in Processes :
              /\ bootstrapToken[p] \in Nat /\ session[p].token \in Nat
              /\ sessionGeneration[p] \in Nat /\ restarts[p] \in Nat
              /\ grant[p] \in Nat /\ Elements(todo[p]) \subseteq Nat
<1>1. Tokens \subseteq Nat /\ NoToken \in Nat
  BY MaxGrantsAssumption DEF Tokens, NoToken
<1>2. \A p \in Processes : session[p].token \in Nat
  BY SessionToken, MaxGrantsAssumption DEF TokenTypes
<1>3. \A p \in Processes : Elements(todo[p]) \subseteq Nat
  BY <1>1, ElementsInSet DEF TokenTypes
<1>4. Tokens \cup {NoToken} \subseteq Nat /\ 0 .. MaxGrants \subseteq Nat
      /\ 0 .. MaxRestarts \subseteq Nat
  BY <1>1, MaxGrantsAssumption, MaxRestartsAssumption
<1>5. /\ live \in Nat /\ issued \in Nat /\ current \in Nat /\ previous \in Nat
      /\ \A p \in Processes : bootstrapToken[p] \in Nat /\ grant[p] \in Nat
  BY <1>1, <1>4 DEF TokenTypes
<1>6. \A p \in Processes : sessionGeneration[p] \in Nat /\ restarts[p] \in Nat
  BY <1>4 DEF TokenTypes
<1>. QED  BY <1>2, <1>3, <1>5, <1>6

(* readCandidates() lists stored tokens only, at least the current one.    *)
LEMMA CandidatesAreStored ==
  ASSUME TokenTypes, NEW p \in Processes
  PROVE  /\ Candidates(p) \in Seq(Tokens) /\ Candidates(p) # <<>>
         /\ Elements(Candidates(p)) \subseteq {current, previous, bootstrapToken[p]}
<1> DEFINE second == IF previous \in {NoToken, current} THEN <<>> ELSE <<previous>>
           third  == IF bootstrapToken[p] \in {current, previous} THEN <<>>
                     ELSE <<bootstrapToken[p]>>
           stored == Tokens \cap {current, previous, bootstrapToken[p]}
<1>1. current \in stored /\ bootstrapToken[p] \in stored
  BY DEF TokenTypes
<1>2. second \in Seq(stored)
  <2>1. CASE previous \in {NoToken, current}
    BY <2>1
  <2>2. CASE previous \notin {NoToken, current}
    <3>1. previous \in stored
      BY <2>2 DEF TokenTypes
    <3> HIDE DEF stored
    <3>. QED  BY <3>1, <2>2
  <2>. QED  BY <2>1, <2>2
<1>3. third \in Seq(stored)
  <2> HIDE DEF stored
  <2>. QED  BY <1>1
<1>4. Candidates(p) = <<current>> \o second \o third
  BY DEF Candidates
<1> HIDE DEF second, third
<1>5. Candidates(p) \in Seq(stored) /\ Len(Candidates(p)) >= 1
  <2> HIDE DEF stored
  <2>1. <<current>> \in Seq(stored) /\ Len(<<current>>) = 1
    BY <1>1
  <2>2. <<current>> \o second \in Seq(stored) /\ Len(<<current>> \o second) >= 1
    BY <2>1, <1>2
  <2>. QED  BY <2>2, <1>3, <1>4
<1>6. \A i \in 1 .. Len(Candidates(p)) : Candidates(p)[i] \in stored
  <2> HIDE DEF stored
  <2>. QED  BY <1>5
<1>7. Candidates(p) \in Seq(Tokens)
  BY <1>5
<1>8. Candidates(p) # <<>>
  BY <1>5
<1>. QED  BY <1>6, <1>7, <1>8 DEF Elements

(* A rotation that fails, or that goes to its next candidate, retreats.    *)
LEMMA FailureRetreats ==
  ASSUME TokenTypes, NEW p \in Processes, NEW result, FailRotation(p, result),
         MarkIfUnmarked(p) \/ UNCHANGED marker,
         UNCHANGED <<live, issued, current, previous, restarts,
                     bootstrapToken, session, sessionGeneration>>
  PROVE  Retreats(p)
<1>1. /\ rotation' = [rotation EXCEPT ![p] = "none"]
      /\ todo' = [todo EXCEPT ![p] = <<>>]
      /\ grant' = [grant EXCEPT ![p] = NoToken]
  BY DEF FailRotation, ClearFlight
<1>2. <<>> \in Seq(Tokens) /\ Elements(<<>>) \subseteq Elements(todo[p])
  BY NoElements
<1>. QED  BY <1>1, <1>2 DEF Retreats, Moves

LEMMA NextRetreats ==
  ASSUME TokenTypes, NEW p \in Processes, todo[p] # <<>>, NextCandidate(p),
         MarkIfUnmarked(p) \/ UNCHANGED marker,
         UNCHANGED <<live, issued, current, previous, restarts,
                     bootstrapToken, session, sessionGeneration>>
  PROVE  Retreats(p)
<1>1. CASE ~(Len(todo[p]) > 1)
  BY <1>1, FailureRetreats DEF NextCandidate
<1>2. CASE Len(todo[p]) > 1
  <2>1. /\ rotation' = [rotation EXCEPT ![p] = "marking"]
        /\ todo' = [todo EXCEPT ![p] = Tail(todo[p])]
        /\ grant' = [grant EXCEPT ![p] = NoToken]
    BY <1>2 DEF NextCandidate
  <2>2. todo[p] \in Seq(Tokens)
    BY DEF TokenTypes
  <2>3. /\ Tail(todo[p]) \in Seq(Tokens) /\ Tail(todo[p]) # <<>>
        /\ Elements(Tail(todo[p])) \subseteq Elements(todo[p])
    BY <2>2, <1>2, TailElements
  <2>. QED  BY <2>1, <2>3 DEF Retreats, Moves
<1>. QED  BY <1>1, <1>2

(* Every step has one of the effects on the tokens, or none.               *)
LEMMA StartReads ==
  ASSUME NEW p \in Processes, JoinOrStart(p), UNCHANGED <<brokerVars, storeVars,
         processVars, managerVars>>
  PROVE  Reads(p) \/ UNCHANGED tokenVars
<1> USE DEF brokerVars, storeVars, processVars, managerVars
<1>1. CASE InFlight(p)
  BY <1>1 DEF JoinOrStart, flightVars, tokenVars
<1>2. CASE ~InFlight(p)
  <2>1. /\ rotation' = [rotation EXCEPT ![p] = IF priorRead[p] THEN "listing" ELSE "reading"]
        /\ UNCHANGED <<todo, grant>>
    BY <1>2 DEF JoinOrStart, StartRotation
  <2>. QED  BY <2>1 DEF Reads, Moves
<1>. QED  BY <1>1, <1>2

LEMMA StepEffects ==
  ASSUME TokenTypes, Counted, [Next]_vars
  PROVE  TokenStep
<1> USE DEF TokenStep, Effect, brokerVars, storeVars, processVars, managerVars
<1>1. ASSUME NEW p \in Processes, RotationStep(p)  PROVE Effect(p)
  <2>. UNCHANGED <<restarts, bootstrapToken>>
    BY <1>1 DEF RotationStep
  <2>1. CASE ReadMarker(p)
    BY <2>1 DEF ReadMarker, NotesFirstMarker, Reads, Moves
  <2>2. CASE ListCandidates(p)
    BY <2>2 DEF ListCandidates, Lists, Moves
  <2>3. CASE ReadFails(p)
    BY <2>3, FailureRetreats DEF ReadFails
  <2>4. CASE BeginRotation(p)
    BY <2>4 DEF BeginRotation, Marks, Moves
  <2>5. CASE BeginRotationFails(p)
    BY <2>5, NextRetreats DEF BeginRotationFails, Counted
  <2>6. CASE BrokerGrants(p)
    BY <2>6 DEF BrokerGrants, IsGranted, Moves
  <2>7. CASE GrantArrives(p)
    BY <2>7 DEF GrantArrives, Numbers, Moves
  <2>8. CASE RefusalArrives(p)
    BY <2>8, NextRetreats DEF RefusalArrives, Counted
  <2>9. CASE TransientFailure(p)
    BY <2>9, FailureRetreats DEF TransientFailure
  <2>10. CASE OtherFailure(p)
    BY <2>10, NextRetreats DEF OtherFailure, Counted
  <2>11. CASE CommitRotation(p)
    BY <2>11 DEF CommitRotation, ClearFlight, Replaces, Moves
  <2>12. CASE CommitFails(p)
    <3>1. CASE UNCHANGED storeVars
      BY <2>12, <3>1, FailureRetreats DEF CommitFails
    <3>2. CASE ReplaceToken(p)
      BY <2>12, <3>2 DEF CommitFails, FailRotation, ClearFlight, Replaces, Moves
    <3>. QED  BY <2>12, <3>1, <3>2 DEF CommitFails
  <2>. QED  BY <1>1, <2>1, <2>2, <2>3, <2>4, <2>5, <2>6, <2>7, <2>8, <2>9,
         <2>10, <2>11, <2>12 DEF RotationStep
<1>2. ASSUME NEW p \in Processes, SessionExpires(p) \/ BeginShutdown(p)
      PROVE  UNCHANGED tokenVars
  BY <1>2 DEF SessionExpires, BeginShutdown, flightVars, tokenVars
<1>3. ASSUME NEW p \in Processes, Restart(p)  PROVE KeepsTokens(p)
  <2>1. [bootstrapToken EXCEPT ![p] = bootstrapToken[p]] = bootstrapToken
    BY DEF TokenTypes
  <2>. QED  BY <1>3, <2>1 DEF Restart, FreshProcess, ClearFlight, KeepsTokens,
         StartsAgain, Moves
<1>4. ASSUME NEW p \in Processes, Authorize(p)  PROVE GetsToken(p)
  BY <1>4 DEF Authorize, FreshProcess, ClearFlight, GetsToken, StartsAgain, Moves
<1>5. ASSUME NEW c \in Clients, ClientStep(c)  PROVE TokenStep
  <2>. UNCHANGED <<brokerVars, storeVars, processVars, managerVars>>
    BY <1>5 DEF ClientStep
  <2>1. CASE BrokerRefuses(c) \/ RequestEnds(c)
    BY <2>1 DEF BrokerRefuses, RequestEnds, flightVars, tokenVars
  <2>2. CASE GetSession(c) \/ RefreshAfterUnauthorized(c)
    <3>1. Home[c] \in Processes
      BY HomeAssumption
    <3>2. UNCHANGED flightVars \/ JoinOrStart(Home[c])
      BY <2>2 DEF GetSession, RefreshAfterUnauthorized
    <3>3. CASE UNCHANGED flightVars
      BY <3>3 DEF flightVars, tokenVars
    <3>. QED  BY <3>1, <3>2, <3>3, StartReads
  <2>. QED  BY <1>5, <2>1, <2>2 DEF ClientStep
<1>6. ASSUME NEW n \in Tokens, BrokerRevokes(n)  PROVE UNCHANGED tokenVars
  BY <1>6 DEF BrokerRevokes, flightVars, tokenVars
<1>7. CASE UNCHANGED vars
  BY <1>7 DEF vars, flightVars, tokenVars
<1>. QED  BY <1>1, <1>2, <1>3, <1>4, <1>5, <1>6, <1>7 DEF Next

(* Every effect preserves the types.                                         *)
LEMMA TokenTypesStep ==
  ASSUME TokenTypes, Counted, TokenStep
  PROVE  TokenTypes'
<1> USE MaxGrantsAssumption, MaxRestartsAssumption
<1> USE DEF TokenTypes, Rotation, Moves
<1>1. ASSUME NEW p \in Processes, Reads(p)  PROVE TokenTypes'
  BY <1>1 DEF Reads
<1>2. ASSUME NEW p \in Processes, Lists(p)  PROVE TokenTypes'
  BY <1>2, CandidatesAreStored DEF Lists
<1>3. ASSUME NEW p \in Processes, Marks(p)  PROVE TokenTypes'
  BY <1>3 DEF Marks, MarkIfUnmarked, Self, Writers
<1>4. ASSUME NEW p \in Processes, Retreats(p)  PROVE TokenTypes'
  BY <1>4 DEF Retreats, MarkIfUnmarked, Self, Writers
<1>5. ASSUME NEW p \in Processes, IsGranted(p)  PROVE TokenTypes'
  BY <1>5 DEF IsGranted, Tokens
<1>6. ASSUME NEW p \in Processes, Numbers(p)  PROVE TokenTypes'
  BY <1>6 DEF Numbers, Counted, Tokens
<1>7. ASSUME NEW p \in Processes, Replaces(p)  PROVE TokenTypes'
  <2>1. [token |-> grant[p], generation |-> sessionGeneration[p]] \in Sessions
    BY <1>7 DEF Replaces, Counted, Sessions
  <2>2. grant[p] \in Tokens /\ Candidate(p) \in Tokens
    BY <1>7 DEF Replaces, Counted, Candidate
  <2>3. session' \in [Processes -> Sessions]
    BY <1>7, <2>1 DEF Replaces
  <2> HIDE DEF Rotation
  <2>4. rotation' \in [Processes -> Rotation]
    BY <1>7 DEF Replaces, Rotation
  <2>5. todo' \in [Processes -> Seq(Tokens)] /\ grant' \in [Processes -> Tokens \cup {NoToken}]
    BY <1>7 DEF Replaces
  <2>. QED  BY <1>7, <2>2, <2>3, <2>4, <2>5 DEF Replaces, ReplaceToken
<1>8. ASSUME NEW p \in Processes, KeepsTokens(p)  PROVE TokenTypes'
  BY <1>8 DEF KeepsTokens, StartsAgain, Sessions
<1>9. ASSUME NEW p \in Processes, GetsToken(p)  PROVE TokenTypes'
  BY <1>9 DEF GetsToken, StartsAgain, InFlight, Sessions, Tokens
<1>10. CASE UNCHANGED tokenVars
  BY <1>10 DEF tokenVars
<1>. QED
  BY <1>1, <1>2, <1>3, <1>4, <1>5, <1>6, <1>7, <1>8, <1>9,
     <1>10 DEF TokenStep, Effect

(* A rotation is counted before its session can be.                          *)
LEMMA CountedStep ==
  ASSUME TokenTypes, Counted, TokenStep
  PROVE  Counted'
<1> USE TokensAreNumbers
<1> USE DEF Counted, TokenTypes, Moves
<1>1. ASSUME NEW p \in Processes, Reads(p)  PROVE Counted'
  BY <1>1 DEF Reads
<1>2. ASSUME NEW p \in Processes, Lists(p)  PROVE Counted'
  BY <1>2, CandidatesAreStored DEF Lists
<1>3. ASSUME NEW p \in Processes, Marks(p)  PROVE Counted'
  BY <1>3 DEF Marks, MarkIfUnmarked
<1>4. ASSUME NEW p \in Processes, Retreats(p)  PROVE Counted'
  <2>1. PICK s \in Seq(Tokens), r \in {"marking", "none"} :
          /\ rotation' = [rotation EXCEPT ![p] = r]
          /\ todo' = [todo EXCEPT ![p] = s]
          /\ r = "marking" => s # <<>>
    BY <1>4 DEF Retreats
  <2>. QED  BY <1>4, <2>1 DEF Retreats
<1>5. ASSUME NEW p \in Processes, IsGranted(p)  PROVE Counted'
  <2>1. issued + 1 \in Tokens
    BY <1>5, MaxGrantsAssumption DEF IsGranted, Tokens
  <2>2. issued' = issued + 1 /\ issued \in Nat /\ UNCHANGED <<todo, sessionGeneration>>
    BY <1>5 DEF IsGranted, Tokens
  <2>3. ASSUME NEW q \in Processes
        PROVE  /\ q = p => rotation'[q] = "redeemed" /\ grant'[q] \in Tokens /\ todo[q] # <<>>
               /\ q # p => rotation'[q] = rotation[q] /\ grant'[q] = grant[q]
    BY <1>5, <2>1 DEF IsGranted
  <2>4. \A q \in Processes : sessionGeneration[q] \in Nat
    OBVIOUS
  <2> HIDE DEF TokenTypes
  <2>. QED  BY <2>2, <2>3, <2>4
<1>6. ASSUME NEW p \in Processes, Numbers(p)  PROVE Counted'
  BY <1>6 DEF Numbers
<1>7. ASSUME NEW p \in Processes, Replaces(p)  PROVE Counted'
  BY <1>7 DEF Replaces, ReplaceToken
<1>8. ASSUME NEW p \in Processes, KeepsTokens(p)  PROVE Counted'
  BY <1>8 DEF KeepsTokens, StartsAgain
<1>9. ASSUME NEW p \in Processes, GetsToken(p)  PROVE Counted'
  BY <1>9 DEF GetsToken, StartsAgain, InFlight
<1>10. CASE UNCHANGED tokenVars
  BY <1>10 DEF tokenVars
<1>. QED
  BY <1>1, <1>2, <1>3, <1>4, <1>5, <1>6, <1>7, <1>8, <1>9,
     <1>10 DEF TokenStep, Effect

(* No step invents a token.                                                  *)
LEMMA AllIssuedStep ==
  ASSUME TokenTypes, TokenTypes', Counted, AllIssued, PendingIsPrivate, TokenStep
  PROVE  AllIssued'
<1> USE TokensAreNumbers, NoElements
<1> USE DEF AllIssued, TokenTypes, Moves
<1>1. ASSUME NEW p \in Processes, Reads(p)  PROVE AllIssued'
  BY <1>1 DEF Reads
<1>2. ASSUME NEW p \in Processes, Lists(p)  PROVE AllIssued'
  BY <1>2, CandidatesAreStored DEF Lists
<1>3. ASSUME NEW p \in Processes, Marks(p)  PROVE AllIssued'
  BY <1>3 DEF Marks, MarkIfUnmarked
<1>4. ASSUME NEW p \in Processes, Retreats(p)  PROVE AllIssued'
  <2>1. Elements(todo'[p]) \subseteq Elements(todo[p])
    BY <1>4 DEF Retreats
  <2>. QED  BY <1>4, <2>1 DEF Retreats
<1>5. ASSUME NEW p \in Processes, IsGranted(p)  PROVE AllIssued'
  BY <1>5 DEF IsGranted
<1>6. ASSUME NEW p \in Processes, Numbers(p)  PROVE AllIssued'
  BY <1>6 DEF Numbers
<1>7. ASSUME NEW p \in Processes, Replaces(p)  PROVE AllIssued'
  <2>1. grant[p] <= issued
    BY <1>7 DEF Replaces, PendingIsPrivate, Spent
  <2>2. Candidate(p) <= issued
    BY <1>7, HeadIsElement DEF Replaces, Counted, Candidate
  <2>3. \A q \in Processes : session'[q].token <= issued
    <3>1. CASE UNCHANGED session
      BY <3>1
    <3>2. CASE session' = [session EXCEPT ![p] =
                 [token |-> grant[p], generation |-> sessionGeneration[p]]]
      BY <3>2, <2>1
    <3>. QED  BY <1>7, <3>1, <3>2 DEF Replaces
  <2>. QED  BY <1>7, <2>1, <2>2, <2>3 DEF Replaces, ReplaceToken
<1>8. ASSUME NEW p \in Processes, KeepsTokens(p)  PROVE AllIssued'
  <2>1. UNCHANGED <<live, issued, current, previous, bootstrapToken>>
    BY <1>8 DEF KeepsTokens, StartsAgain
  <2>2. \A q \in Processes : session'[q].token <= issued
    <3>1. session' = [session EXCEPT ![p] = NoSession] /\ NoSession.token <= issued
      BY <1>8 DEF KeepsTokens, StartsAgain, NoSession, NoToken, Tokens
    <3>. QED  BY <3>1
  <2>3. \A q \in Processes : todo'[q] = todo[q] \/ todo'[q] = <<>>
    BY <1>8 DEF KeepsTokens, StartsAgain
  <2> HIDE DEF TokenTypes
  <2>. QED  BY <2>1, <2>2, <2>3
<1>9. ASSUME NEW p \in Processes, GetsToken(p)  PROVE AllIssued'
  <2>1. issued' = issued + 1 /\ live' = issued + 1 /\ UNCHANGED <<current, previous>>
    BY <1>9 DEF GetsToken, StartsAgain
  <2>2. \A q \in Processes : bootstrapToken'[q] \in {bootstrapToken[q], issued + 1}
    BY <1>9 DEF GetsToken
  <2>3. \A q \in Processes : session'[q].token \in {session[q].token, 0}
    BY <1>9 DEF GetsToken, StartsAgain, NoSession, NoToken
  <2>4. \A q \in Processes : todo'[q] = todo[q] \/ todo'[q] = <<>>
    BY <1>9 DEF GetsToken, StartsAgain
  <2> HIDE DEF TokenTypes
  <2>5. \A x \in Nat : x <= issued => x <= issued'
    BY <2>1
  <2>6. live' <= issued' /\ current' <= issued' /\ previous' <= issued'
    BY <2>1, <2>5
  <2>7. \A q \in Processes : bootstrapToken'[q] <= issued'
    BY <2>1, <2>2, <2>5
  <2>8. \A q \in Processes : session'[q].token <= issued'
    BY <2>3, <2>5
  <2>9. \A q \in Processes : \A t \in Elements(todo'[q]) : t <= issued'
    BY <2>4, <2>5
  <2>. QED  BY <2>6, <2>7, <2>8, <2>9
<1>10. CASE UNCHANGED tokenVars
  BY <1>10 DEF tokenVars
<1>. QED
  BY <1>1, <1>2, <1>3, <1>4, <1>5, <1>6, <1>7, <1>8, <1>9,
     <1>10 DEF TokenStep, Effect

(* A token redeemed by one rotation is out of the reach of all others.       *)
LEMMA PendingStep ==
  ASSUME TokenTypes, Counted, AllIssued, PendingIsPrivate, TokenStep
  PROVE  PendingIsPrivate'
<1> USE TokensAreNumbers, NoElements
<1> USE DEF PendingIsPrivate, Spent, TokenTypes, Moves
<1>1. ASSUME NEW p \in Processes, Reads(p)  PROVE PendingIsPrivate'
  BY <1>1 DEF Reads
<1>2. ASSUME NEW p \in Processes, Lists(p)  PROVE PendingIsPrivate'
  <2>1. /\ todo'[p] = Candidates(p)
        /\ \A q \in Processes : q # p => todo'[q] = todo[q]
    BY <1>2 DEF Lists
  <2>2. \A q \in Processes : rotation'[q] = rotation[q] \/ ~Spent(q)'
    BY <1>2 DEF Lists
  <2>3. \A t \in Elements(Candidates(p)) : t \in {current, previous, bootstrapToken[p]}
    BY CandidatesAreStored
  <2>4. \A q \in Processes : Spent(q) => live \notin Elements(Candidates(p))
    BY <2>3
  <2>5. \A q, r \in Processes : Spent(q) => live \notin Elements(todo'[r])
    BY <2>1, <2>4
  <2>. QED  BY <1>2, <2>2, <2>5 DEF Lists
<1>3. ASSUME NEW p \in Processes, Marks(p)  PROVE PendingIsPrivate'
  BY <1>3 DEF Marks, MarkIfUnmarked
<1>4. ASSUME NEW p \in Processes, Retreats(p)  PROVE PendingIsPrivate'
  <2>1. Elements(todo'[p]) \subseteq Elements(todo[p])
    BY <1>4 DEF Retreats
  <2>. QED  BY <1>4, <2>1 DEF Retreats
<1>5. ASSUME NEW p \in Processes, IsGranted(p)  PROVE PendingIsPrivate'
  <2>1. Candidate(p) \in Elements(todo[p])
    BY <1>5, HeadIsElement DEF IsGranted, Counted, Candidate
  <2>2. \A q \in Processes : ~Spent(q)
    BY <1>5, <2>1 DEF IsGranted
  <2>3. \A q \in Processes : issued + 1 \notin Elements(todo[q])
    BY <1>5 DEF AllIssued
  <2>. QED  BY <1>5, <2>2, <2>3 DEF IsGranted, AllIssued
<1>6. ASSUME NEW p \in Processes, Numbers(p)  PROVE PendingIsPrivate'
  BY <1>6 DEF Numbers
<1>7. ASSUME NEW p \in Processes, Replaces(p)  PROVE PendingIsPrivate'
  BY <1>7 DEF Replaces, ReplaceToken
<1>8. ASSUME NEW p \in Processes, KeepsTokens(p)  PROVE PendingIsPrivate'
  <2>1. UNCHANGED <<live, issued, current, previous, bootstrapToken>>
    BY <1>8 DEF KeepsTokens, StartsAgain
  <2>2. /\ ~Spent(p)'
        /\ \A q \in Processes : q # p => rotation'[q] = rotation[q] /\ grant'[q] = grant[q]
    BY <1>8 DEF KeepsTokens, StartsAgain
  <2>3. \A q \in Processes : session'[q] = session[q] \/ session'[q].token = NoToken
    BY <1>8 DEF KeepsTokens, StartsAgain, NoSession
  <2>4. \A q \in Processes : todo'[q] = todo[q] \/ todo'[q] = <<>>
    BY <1>8 DEF KeepsTokens, StartsAgain
  <2>5. live # NoToken
    BY DEF NoToken, Tokens
  <2> HIDE DEF TokenTypes
  <2>. QED  BY <2>1, <2>2, <2>3, <2>4, <2>5
<1>9. ASSUME NEW p \in Processes, GetsToken(p)  PROVE PendingIsPrivate'
  BY <1>9 DEF GetsToken, StartsAgain, InFlight
<1>10. CASE UNCHANGED tokenVars
  BY <1>10 DEF tokenVars
<1>. QED
  BY <1>1, <1>2, <1>3, <1>4, <1>5, <1>6, <1>7, <1>8, <1>9,
     <1>10 DEF TokenStep, Effect

(* No live token is presented before the row is marked.                      *)
LEMMA MarkedStep ==
  ASSUME TokenTypes, Counted, AllIssued, PendingIsPrivate, MarkedBeforeRedeem, TokenStep
  PROVE  MarkedBeforeRedeem'
<1> USE TokensAreNumbers, UnmarkedAssumption
<1> USE DEF MarkedBeforeRedeem, TokenTypes, Candidate, Self, Moves
<1>1. ASSUME NEW p \in Processes, Reads(p)  PROVE MarkedBeforeRedeem'
  BY <1>1 DEF Reads
<1>2. ASSUME NEW p \in Processes, Lists(p)  PROVE MarkedBeforeRedeem'
  BY <1>2 DEF Lists
<1>3. ASSUME NEW p \in Processes, Marks(p)  PROVE MarkedBeforeRedeem'
  BY <1>3 DEF Marks, MarkIfUnmarked
<1>4. ASSUME NEW p \in Processes, Retreats(p)  PROVE MarkedBeforeRedeem'
  BY <1>4 DEF Retreats, MarkIfUnmarked
<1>5. ASSUME NEW p \in Processes, IsGranted(p)  PROVE MarkedBeforeRedeem'
  <2>1. \A q \in Processes : rotation[q] = "redeeming" => Head(todo[q]) <= issued
    BY HeadIsElement DEF Counted, AllIssued
  <2>. QED  BY <1>5, <2>1 DEF IsGranted
<1>6. ASSUME NEW p \in Processes, Numbers(p)  PROVE MarkedBeforeRedeem'
  BY <1>6 DEF Numbers
<1>7. ASSUME NEW p \in Processes, Replaces(p)  PROVE MarkedBeforeRedeem'
  <2>1. \A q \in Processes : rotation[q] = "redeeming" => Head(todo[q]) # live
    BY <1>7, HeadIsElement DEF Replaces, PendingIsPrivate, Spent, Counted
  <2>. QED  BY <1>7, <2>1 DEF Replaces, ReplaceToken
<1>8. ASSUME NEW p \in Processes, KeepsTokens(p)  PROVE MarkedBeforeRedeem'
  BY <1>8 DEF KeepsTokens, StartsAgain
<1>9. ASSUME NEW p \in Processes, GetsToken(p)  PROVE MarkedBeforeRedeem'
  BY <1>9 DEF GetsToken, StartsAgain, InFlight
<1>10. CASE UNCHANGED tokenVars
  BY <1>10 DEF tokenVars
<1>. QED
  BY <1>1, <1>2, <1>3, <1>4, <1>5, <1>6, <1>7, <1>8, <1>9,
     <1>10 DEF TokenStep, Effect

(* The live token leaves the stored ones only behind a marker.               *)
LEMMA StrandedStep ==
  ASSUME TokenTypes, PendingIsPrivate, MarkedBeforeRedeem, StrandedIsMarked, TokenStep
  PROVE  StrandedIsMarked'
<1> USE UnmarkedAssumption, TokensAreNumbers
<1> USE DEF StrandedIsMarked, TokenTypes, Self, Moves
<1>1. ASSUME NEW p \in Processes, Reads(p)  PROVE StrandedIsMarked'
  BY <1>1 DEF Reads
<1>2. ASSUME NEW p \in Processes, Lists(p)  PROVE StrandedIsMarked'
  BY <1>2 DEF Lists
<1>3. ASSUME NEW p \in Processes, Marks(p)  PROVE StrandedIsMarked'
  BY <1>3 DEF Marks, MarkIfUnmarked
<1>4. ASSUME NEW p \in Processes, Retreats(p)  PROVE StrandedIsMarked'
  BY <1>4 DEF Retreats, MarkIfUnmarked
<1>5. ASSUME NEW p \in Processes, IsGranted(p)  PROVE StrandedIsMarked'
  BY <1>5 DEF IsGranted, MarkedBeforeRedeem
<1>6. ASSUME NEW p \in Processes, Numbers(p)  PROVE StrandedIsMarked'
  BY <1>6 DEF Numbers
<1>7. ASSUME NEW p \in Processes, Replaces(p)  PROVE StrandedIsMarked'
  BY <1>7 DEF Replaces, ReplaceToken, PendingIsPrivate, Spent
<1>8. ASSUME NEW p \in Processes, KeepsTokens(p)  PROVE StrandedIsMarked'
  BY <1>8 DEF KeepsTokens, StartsAgain
<1>9. ASSUME NEW p \in Processes, GetsToken(p)  PROVE StrandedIsMarked'
  BY <1>9 DEF GetsToken, StartsAgain, InFlight
<1>10. CASE UNCHANGED tokenVars
  BY <1>10 DEF tokenVars
<1>. QED
  BY <1>1, <1>2, <1>3, <1>4, <1>5, <1>6, <1>7, <1>8, <1>9,
     <1>10 DEF TokenStep, Effect

(* A session is installed with the token that renews it stored.              *)
LEMMA ServedStep ==
  ASSUME TokenTypes, AllIssued, PendingIsPrivate, ServedIsRenewable, TokenStep
  PROVE  ServedIsRenewable'
<1> USE TokensAreNumbers
<1> USE DEF ServedIsRenewable, TokenTypes, Moves
<1>1. ASSUME NEW p \in Processes, Reads(p)  PROVE ServedIsRenewable'
  BY <1>1 DEF Reads
<1>2. ASSUME NEW p \in Processes, Lists(p)  PROVE ServedIsRenewable'
  BY <1>2 DEF Lists
<1>3. ASSUME NEW p \in Processes, Marks(p)  PROVE ServedIsRenewable'
  BY <1>3 DEF Marks, MarkIfUnmarked
<1>4. ASSUME NEW p \in Processes, Retreats(p)  PROVE ServedIsRenewable'
  BY <1>4 DEF Retreats
<1>5. ASSUME NEW p \in Processes, IsGranted(p)  PROVE ServedIsRenewable'
  BY <1>5 DEF IsGranted, AllIssued
<1>6. ASSUME NEW p \in Processes, Numbers(p)  PROVE ServedIsRenewable'
  BY <1>6 DEF Numbers
<1>7. ASSUME NEW p \in Processes, Replaces(p)  PROVE ServedIsRenewable'
  BY <1>7 DEF Replaces, ReplaceToken, PendingIsPrivate, Spent
<1>8. ASSUME NEW p \in Processes, KeepsTokens(p)  PROVE ServedIsRenewable'
  BY <1>8 DEF KeepsTokens, StartsAgain
<1>9. ASSUME NEW p \in Processes, GetsToken(p)  PROVE ServedIsRenewable'
  <2>1. live' = issued + 1
    BY <1>9 DEF GetsToken
  <2>2. \A q \in Processes : session'[q] = NoSession \/ session'[q] = session[q]
    BY <1>9 DEF GetsToken, StartsAgain
  <2>3. issued \in Nat /\ \A q \in Processes : session[q].token \in Nat /\ session[q].token <= issued
    BY DEF AllIssued
  <2> HIDE DEF TokenTypes
  <2>4. \A q \in Processes : session[q].token # live'
    BY <2>1, <2>3
  <2>. QED  BY <2>2, <2>4
<1>10. CASE UNCHANGED tokenVars
  BY <1>10 DEF tokenVars
<1>. QED
  BY <1>1, <1>2, <1>3, <1>4, <1>5, <1>6, <1>7, <1>8, <1>9,
     <1>10 DEF TokenStep, Effect

-----------------------------------------------------------------------------
LEMMA TokenInit ==
  ASSUME Init  PROVE TokenInv
<1>. 1 \in Tokens
  BY MaxGrantsAssumption DEF Tokens
<1>1. TokenTypes
  BY MaxGrantsAssumption, MaxRestartsAssumption DEF Init, All, TokenTypes, Sessions, Rotation
<1>2. Counted
  <2>1. \A p \in Processes : rotation[p] = "none" /\ sessionGeneration[p] = 0
    BY DEF Init, All
  <2>2. issued = 1
    BY DEF Init
  <2>3. 0 < issued /\ ~("none" \in {"marking", "redeeming", "redeemed", "committing"})
    BY <2>2
  <2>. QED  BY <2>1, <2>3, Zenon DEF Counted
<1>3. AllIssued
  BY NoElements DEF Init, All, AllIssued, NoSession, NoToken
<1>4. PendingIsPrivate /\ MarkedBeforeRedeem
  BY DEF Init, All, PendingIsPrivate, Spent, MarkedBeforeRedeem
<1>5. StrandedIsMarked /\ ServedIsRenewable
  BY DEF Init, All, StrandedIsMarked, ServedIsRenewable
<1>. QED  BY <1>1, <1>2, <1>3, <1>4, <1>5 DEF TokenInv

LEMMA TokenNext ==
  ASSUME TokenInv, [Next]_vars  PROVE TokenInv'
<1>. USE DEF TokenInv
<1>1. TokenStep
  BY StepEffects
<1>2. TokenTypes'
  BY <1>1, TokenTypesStep
<1>. QED  BY <1>1, <1>2, CountedStep, AllIssuedStep, PendingStep, MarkedStep,
       StrandedStep, ServedStep

LEMMA TokenInvariant == Spec => []TokenInv
<1>1. Init => TokenInv
  BY TokenInit
<1>2. TokenInv /\ [Next]_vars => TokenInv'
  BY TokenNext
<1>. QED  BY <1>1, <1>2, PTL DEF Spec

(* The loss of the account never goes unmarked: whenever no stored token   *)
(* can redeem, rotation_started_at says that a rotation was left open.     *)
THEOREM StrandingIsMarked == Spec => []StrandedIsMarked
BY TokenInvariant, PTL DEF TokenInv

(* A session that the broker's live token renews is served only when that  *)
(* token is the stored one, so a crash then costs nothing.                 *)
THEOREM ServingIsRenewable == Spec => []ServedIsRenewable
BY TokenInvariant, PTL DEF TokenInv

-----------------------------------------------------------------------------
(* The types of the other variables.                                       *)

\* What a process keeps about itself changes as follows.
LEMMA ProcessTypesStep ==
  ASSUME TokenTypes, TokenTypes', ProcessTypes, [Next]_vars
  PROVE  ProcessTypes'
<1> USE DEF ProcessTypes
<1>. Verdicts = {"none", "renewed", "transient", "uncertain", "reauthorize", "storeError"}
  BY DEF Verdicts
<1>1. ASSUME NEW p \in Processes, NEW result \in Verdicts, FailRotation(p, result)
      PROVE  /\ shutdown' \in [Processes -> {"up", "settling", "closing"}]
             /\ verdict' \in [Processes -> Verdicts]
  BY <1>1 DEF FailRotation, ClearFlight, EndSettle
<1>2. ASSUME NEW p \in Processes, NextCandidate(p)
      PROVE  /\ shutdown' \in [Processes -> {"up", "settling", "closing"}]
             /\ verdict' \in [Processes -> Verdicts]
  BY <1>1, <1>2 DEF NextCandidate
<1>3. ASSUME NEW p \in Processes, RotationStep(p)  PROVE ProcessTypes'
  <2> USE DEF brokerVars, managerVars
  <2>. UNCHANGED diedMidRotation
    BY <1>3 DEF RotationStep
  <2>1. CASE ReadMarker(p)
    BY <2>1 DEF ReadMarker, NotesFirstMarker, TokenTypes
  <2>2. CASE ListCandidates(p)
    BY <2>2 DEF ListCandidates
  <2>3. CASE ReadFails(p)
    BY <2>3, <1>1 DEF ReadFails
  <2>4. CASE BeginRotation(p)
    BY <2>4 DEF BeginRotation
  <2>5. CASE BeginRotationFails(p)
    BY <2>5, <1>2 DEF BeginRotationFails
  <2>6. CASE BrokerGrants(p)
    BY <2>6 DEF BrokerGrants, TokenTypes
  <2>7. CASE GrantArrives(p)
    BY <2>7 DEF GrantArrives
  <2>8. CASE RefusalArrives(p)
    BY <2>8, <1>2 DEF RefusalArrives
  <2>9. CASE TransientFailure(p)
    BY <2>9, <1>1 DEF TransientFailure
  <2>10. CASE OtherFailure(p)
    BY <2>10, <1>2 DEF OtherFailure
  <2>11. CASE CommitRotation(p)
    BY <2>11 DEF CommitRotation, ClearFlight, EndSettle
  <2>12. CASE CommitFails(p)
    BY <2>12, <1>1 DEF CommitFails
  <2>. QED  BY <1>3, <2>1, <2>2, <2>3, <2>4, <2>5, <2>6, <2>7, <2>8, <2>9,
         <2>10, <2>11, <2>12 DEF RotationStep
<1>4. ASSUME NEW p \in Processes, SessionExpires(p)  PROVE ProcessTypes'
  BY <1>4 DEF SessionExpires, brokerVars, flightVars
<1>5. ASSUME NEW p \in Processes, BeginShutdown(p)  PROVE ProcessTypes'
  BY <1>5 DEF BeginShutdown, brokerVars, managerVars, flightVars
<1>6. ASSUME NEW p \in Processes, NEW b, FreshProcess(p, b), UNCHANGED accepted
      PROVE  ProcessTypes'
  <2>1. Self(p) \in Writers
    BY DEF Self, Writers, TokenTypes
  <2>2. /\ shutdown' = [shutdown EXCEPT ![p] = "up"]
        /\ fresh' = [fresh EXCEPT ![p] = FALSE]
        /\ priorRead' = [priorRead EXCEPT ![p] = FALSE]
        /\ prior' = [prior EXCEPT ![p] = Unmarked]
        /\ verdict' = [verdict EXCEPT ![p] = "none"]
        /\ \/ diedMidRotation' = diedMidRotation \cup {Self(p)}
           \/ diedMidRotation' = diedMidRotation
    BY <1>6 DEF FreshProcess, ClearFlight
  <2>3. fresh' \in [Processes -> BOOLEAN] /\ priorRead' \in [Processes -> BOOLEAN]
    BY <2>2, Zenon
  <2>. QED  BY <1>6, <2>1, <2>2, <2>3
<1>7. ASSUME NEW p \in Processes, Restart(p) \/ Authorize(p)  PROVE ProcessTypes'
  BY <1>6, <1>7 DEF Restart, Authorize, brokerVars
<1>8. ASSUME NEW c \in Clients, ClientStep(c)  PROVE ProcessTypes'
  <2>. UNCHANGED <<accepted, shutdown, fresh, priorRead, prior, diedMidRotation>>
    BY <1>8 DEF ClientStep, brokerVars, managerVars
  <2>1. UNCHANGED verdict
    BY <1>8 DEF ClientStep, GetSession, BrokerRefuses, RequestEnds,
       RefreshAfterUnauthorized, JoinOrStart, StartRotation, flightVars
  <2>. QED  BY <2>1
<1>9. ASSUME NEW n \in Tokens, BrokerRevokes(n)  PROVE ProcessTypes'
  BY <1>9 DEF BrokerRevokes, managerVars, flightVars
<1>10. CASE UNCHANGED vars
  BY <1>10 DEF vars, brokerVars, managerVars, flightVars
<1>. QED  BY <1>3, <1>4, <1>5, <1>7, <1>8, <1>9, <1>10 DEF Next

LEMMA ClientTypesStep ==
  ASSUME TokenTypes, TokenTypes', Counted, ClientTypes, [Next]_vars
  PROVE  ClientTypes'
<1> USE DEF ClientTypes
<1>. NoSession \in Sessions
  BY DEF Sessions
<1>. Phase = {"idle", "awaiting", "sent", "refused", "rejoining", "resent"}
  BY DEF Phase
<1>1. ASSUME NEW p, AnswerWithError(p)  PROVE ClientTypes'
  BY <1>1 DEF AnswerWithError
<1>2. ASSUME NEW p, NEW s \in Sessions, AnswerWithSession(p, s)  PROVE ClientTypes'
  BY <1>2 DEF AnswerWithSession
<1>3. ASSUME NEW c \in Clients, NEW label \in Phase, NEW s \in Sessions, GoTo(c, label, s)
      PROVE  ClientTypes'
  BY <1>3 DEF GoTo
<1>4. ASSUME NEW p \in Processes, NextCandidate(p)  PROVE ClientTypes'
  BY <1>1, <1>4 DEF NextCandidate, FailRotation, clientVars
<1>5. ASSUME NEW p \in Processes, RotationStep(p)  PROVE ClientTypes'
  <2>1. CASE \/ ReadMarker(p) \/ ListCandidates(p) \/ BeginRotation(p)
             \/ BrokerGrants(p) \/ GrantArrives(p)
    BY <2>1 DEF ReadMarker, ListCandidates, BeginRotation, BrokerGrants,
       GrantArrives, clientVars
  <2>2. CASE ReadFails(p) \/ TransientFailure(p) \/ CommitFails(p)
    BY <2>2, <1>1 DEF ReadFails, TransientFailure, CommitFails, FailRotation
  <2>3. CASE BeginRotationFails(p) \/ RefusalArrives(p) \/ OtherFailure(p)
    BY <2>3, <1>4 DEF BeginRotationFails, RefusalArrives, OtherFailure
  <2>4. CASE CommitRotation(p)
    <3>1. [token |-> grant[p], generation |-> sessionGeneration[p]] \in Sessions
      BY <2>4 DEF CommitRotation, Counted, TokenTypes, Sessions
    <3>. QED  BY <2>4, <3>1, <1>2 DEF CommitRotation
  <2>. QED  BY <1>5, <2>1, <2>2, <2>3, <2>4 DEF RotationStep
<1>6. ASSUME NEW p \in Processes, SessionExpires(p) \/ BeginShutdown(p)  PROVE ClientTypes'
  BY <1>6 DEF SessionExpires, BeginShutdown, clientVars
<1>7. ASSUME NEW p \in Processes, Restart(p) \/ Authorize(p)  PROVE ClientTypes'
  BY <1>7 DEF Restart, Authorize, FreshProcess
<1>8. ASSUME NEW c \in Clients, ClientStep(c)  PROVE ClientTypes'
  <2>1. session[Home[c]] \in Sessions /\ held[c] \in Sessions
    BY HomeAssumption DEF TokenTypes
  <2>2. \E label \in Phase, s \in Sessions : GoTo(c, label, s)
    BY <1>8, <2>1 DEF ClientStep, GetSession, BrokerRefuses, RequestEnds,
       RefreshAfterUnauthorized
  <2>. QED  BY <2>2, <1>3
<1>9. ASSUME NEW n \in Tokens, BrokerRevokes(n)  PROVE ClientTypes'
  BY <1>9 DEF BrokerRevokes, clientVars
<1>10. CASE UNCHANGED vars
  BY <1>10 DEF vars, clientVars
<1>. QED  BY <1>5, <1>6, <1>7, <1>8, <1>9, <1>10 DEF Next

(* Every variable keeps its type.                                          *)
THEOREM TypeCorrect == Spec => []TypeOK
<1>1. Init => ProcessTypes /\ ClientTypes
  BY DEF Init, All, ProcessTypes, ClientTypes, Verdicts, Phase, Sessions
<1>2. TokenInv /\ TokenInv' /\ ProcessTypes /\ ClientTypes /\ [Next]_vars
        => ProcessTypes' /\ ClientTypes'
  BY ProcessTypesStep, ClientTypesStep DEF TokenInv
<1>3. TokenInv /\ ProcessTypes /\ ClientTypes => TypeOK
  BY DEF TokenInv, TokenTypes, ProcessTypes, ClientTypes, TypeOK
<1>. QED  BY <1>1, <1>2, <1>3, TokenInvariant, PTL DEF Spec

(* No lock holds other processes off a redeem: the broker honours a token  *)
(* once and a rotation marks its row first. A replacement that is not in   *)
(* the store yet is the live token, one rotation of one process has it,    *)
(* and neither store nor session, candidate or bootstrap names it.         *)
THEOREM ReplacementIsPrivate == Spec => []PendingIsPrivate
<1>1. TokenInv => PendingIsPrivate
  BY DEF TokenInv
<1>. QED  BY <1>1, TokenInvariant, PTL

=============================================================================
