----------------------------- MODULE RoomProofs -----------------------------
(***************************************************************************)
(* What Discussion promises about the room: it implements ClaimRoom, a     *)
(* converged room is sealed by verdicts of its last round, no CONVERGED    *)
(* outlives the judgment it belongs to, claims shown in part keep their    *)
(* status, and every OPEN claim is routed by the judgment before.          *)
(***************************************************************************)
EXTENDS DiscussionProofs

-----------------------------------------------------------------------------
(* The initial state is one of the room's, and each step is a step of the  *)
(* room or changes nothing there.  That the room ends is left to TLC.      *)

\* The claims as the room sees them.
Status == [k \in Keywords |-> claims[k].status]
Undecided == [k \in Keywords |-> Pending(claims[k])]
Decided == [k \in Keywords |-> Resolved(claims[k])]

SomeClaim == \E k \in Keywords : claims[k].status # "ABSENT"

\* The Host is asked only about claims there are, and it takes the Host to
\* find a room CONVERGED.
Peopled ==
    phase \in {"judge", "summary"} \/ adjudication = "CONVERGED" => SomeClaim

\* A claim never vanishes.
LEMMA ClaimsStay ==
    ASSUME TypeOK, Standing, [Next]_vars, SomeClaim
    PROVE  SomeClaim'
<1>1. PICK k \in Keywords : claims[k].status # "ABSENT"
  BY DEF SomeClaim
<1>2. claims'[k].status # "ABSENT"
  BY <1>1, StepEvolves
     DEF Unaffected, Proposed, Asked, Settled, Heard
<1> QED BY <1>2 DEF SomeClaim

LEMMA CandidatesExist ==
    ASSUME Standing, HostCandidates(claims) # {}
    PROVE  SomeClaim
<1>1. PICK k \in Keywords : IsOpen(claims[k]) \/ Pending(claims[k]) # {}
  BY DEF HostCandidates
<1>2. claims[k].status # "ABSENT"
  BY <1>1 DEF IsOpen, Standing, Pending
<1> QED BY <1>2 DEF SomeClaim

LEMMA ConvergedHasClaim ==
    ASSUME Peopled, RoomConverged
    PROVE  SomeClaim
BY DEF Peopled, RoomConverged, SomeClaim

LEMMA PeopledHolds == Spec => []Peopled
<1>1. Init => Peopled
  BY DEF Init, Peopled
<1>2. Inv /\ Peopled /\ [Next]_vars => Peopled'
  <2> SUFFICES ASSUME Inv, Peopled, [Next]_vars
               PROVE  Peopled'
    OBVIOUS
  <2>1. TypeOK /\ Standing
    BY DEF Inv
  <2>2. CASE SomeClaim
    BY <2>1, <2>2, ClaimsStay DEF Peopled
  <2>3. CASE ~SomeClaim
    <3>1. /\ phase \notin {"judge", "summary"}
          /\ adjudication # "CONVERGED"
      BY <2>3 DEF Peopled
    <3>2. HostCandidates(claims) = {} /\ ~RoomConverged
      BY <2>1, <2>3, CandidatesExist, ConvergedHasClaim
    <3>3. /\ phase' \notin {"judge", "summary"}
          /\ adjudication' = adjudication
      <4>1. CASE AgentStep
        BY <3>1, <4>1
           DEF AgentStep, StartRounds, AgentAnswers, AgentFails,
               GatherOutputs, FirstRoundFails, FinishWithError, judgeVars
      <4>2. CASE MergeStep
        BY <3>1, <4>2
           DEF MergeStep, MergeNewClaim, MergeResponse, MergeReopenRequest,
               NextResponse, judgeVars
      <4>3. CASE JudgeStep
        BY <3>1, <3>2, <4>3
           DEF JudgeStep, SkipJudgment, StartJudgment, OfferBatch,
               RejectReply, AcceptReply, DropReply, ApplyVerdicts, judgeVars
      <4>4. CASE RoomStep
        BY <3>1, <3>2, <4>4
           DEF RoomStep, NextRound, StopAtLimit, Converge, Summarize,
               Finish, judgeVars
      <4>5. CASE RunFails
        BY <3>1, <4>5 DEF RunFails, FinishWithError, judgeVars
      <4>6. CASE UNCHANGED vars
        BY <3>1, <4>6 DEF vars, judgeVars
      <4> QED BY <4>1, <4>2, <4>3, <4>4, <4>5, <4>6 DEF Next, Done
    <3> QED BY <3>1, <3>3 DEF Peopled
  <2> QED BY <2>2, <2>3
<1> QED BY <1>1, <1>2, InvHolds, PTL DEF Spec

-----------------------------------------------------------------------------
(* The steps that change claims. *)

LEMMA RequestsAreTyped ==
    ASSUME NEW c \in Claim
    PROVE  Requested(c) \subseteq Request
<1> SUFFICES ASSUME NEW e \in Range(c.entries), e.type = "REOPEN_REQUEST"
             PROVE  e.request \in Request
  BY DEF Requested, EntriesOf
<1>1. e \in Entry
  BY DEF Claim, Range
<1> QED BY <1>1 DEF Entry

\* A new claim is a Propose, a request an AskReopen, and an ordinary response
\* changes nothing in the room.
LEMMA MergeIsRoomStep ==
    ASSUME TypeOK, Standing, MergeStep
    PROVE  Room!Propose \/ Room!AskReopen
<1>1. Outcome = "running" /\ Outcome' = Outcome
  BY DEF MergeStep, MergeNewClaim, MergeResponse, MergeReopenRequest,
         NextResponse, Outcome
<1>2. \A k \in Keywords :
         \/ Unaffected(claims[k], claims'[k])
         \/ Proposed(claims[k], claims'[k])
         \/ Asked(claims[k], claims'[k])
  BY MergeEvolves
<1>3. PICK a \in Agents :
         MergeNewClaim(a) \/ MergeResponse(a) \/ MergeReopenRequest(a)
  BY DEF MergeStep
<1>4. CASE MergeNewClaim(a) \/ MergeResponse(a)
  <2>1. \A k \in Keywords :
           claims'[k] = claims[k] \/ claims[k].status # "CLOSED"
    BY <1>4 DEF MergeNewClaim, MergeResponse, IsOpen
  <2>2. \A k \in Keywords :
           \/ Unaffected(claims[k], claims'[k])
           \/ Proposed(claims[k], claims'[k])
    BY <1>2, <2>1 DEF Asked, Unaffected, SameHistory
  <2> DEFINE new == {k \in Keywords : Proposed(claims[k], claims'[k])}
  <2>3. new \subseteq {k \in Keywords : Status[k] = "ABSENT"}
    BY DEF Proposed, Status
  <2>4. Status' = [k \in Keywords |->
                     IF k \in new THEN "OPEN" ELSE Status[k]]
    BY <2>2 DEF Status, Proposed, Unaffected
  <2>5. Undecided' = Undecided /\ Decided' = Decided
    BY <2>2 DEF Undecided, Decided, Proposed, Unaffected, SameHistory,
                Pending
  <2> HIDE DEF new
  <2>6. Room!Propose
    BY <1>1, <2>3, <2>4, <2>5 DEF Room!Propose, Status, Undecided, Decided
  <2> QED BY <2>6
<1>5. CASE MergeReopenRequest(a)
  <2>1. \A k \in Keywords :
           claims'[k] = claims[k] \/ claims[k].status = "CLOSED"
    BY <1>5 DEF MergeReopenRequest, AcceptsRequest, IsClosed
  <2>2. \A k \in Keywords :
           \/ Unaffected(claims[k], claims'[k])
           \/ Asked(claims[k], claims'[k])
    BY <1>2, <2>1 DEF Proposed, Unaffected, SameHistory
  <2>3. Status' = Status /\ Decided' = Decided
    BY <2>2 DEF Status, Decided, Asked, Unaffected, SameHistory
  <2>4. \A k \in Keywords : Pending(claims'[k]) \subseteq Request
    BY <2>2, RequestsAreTyped
       DEF TypeOK, Pending, Asked, Unaffected, SameHistory
  <2>5. \A k \in Keywords :
           \/ Pending(claims'[k]) = Pending(claims[k])
           \/ /\ claims[k].status = "CLOSED"
              /\ \E r \in Pending(claims'[k])
                            \ (Pending(claims[k]) \cup Resolved(claims[k])) :
                    Pending(claims'[k]) = Pending(claims[k]) \cup {r}
    <3>1. TAKE k \in Keywords
    <3>2. CASE Unaffected(claims[k], claims'[k])
      BY <3>2 DEF Unaffected, SameHistory, Pending
    <3>3. CASE Asked(claims[k], claims'[k])
      <4>1. PICK q \in Request \ Requested(claims[k]) :
               Requested(claims'[k]) = Requested(claims[k]) \cup {q}
        BY <3>3 DEF Asked
      <4>2. q \notin Pending(claims[k]) \cup Resolved(claims[k])
        BY <4>1 DEF Pending, Standing
      <4>3. Pending(claims'[k]) = Pending(claims[k]) \cup {q}
        BY <3>3, <4>1, <4>2 DEF Asked, Pending
      <4> QED BY <3>3, <4>2, <4>3 DEF Asked
    <3> QED BY <2>2, <3>2, <3>3
  <2>6. Room!AskReopen
    BY <1>1, <2>3, <2>4, <2>5 DEF Room!AskReopen, Status, Undecided, Decided
  <2> QED BY <2>6
<1> QED BY <1>3, <1>4, <1>5
\* Applying the verdicts of a round is one ruling of the room.
LEMMA ApplyIsRoomStep ==
    ASSUME TypeOK, ApplyVerdicts
    PROVE  Room!Rule
<1> DEFINE closed == {k \in Keywords : Settled(claims[k], claims'[k])}
           heard == {k \in Keywords : Heard(claims[k], claims'[k])}
           reopened == {k \in heard : claims'[k].status = "OPEN"}
<1>1. Outcome = "running" /\ Outcome' = Outcome
  BY DEF ApplyVerdicts, Outcome
<1>2. \A k \in Keywords :
         \/ Unaffected(claims[k], claims'[k])
         \/ Settled(claims[k], claims'[k])
         \/ Heard(claims[k], claims'[k])
  BY ApplyEvolves
<1>3. /\ closed \subseteq {k \in Keywords : Status[k] = "OPEN"}
      /\ heard \subseteq {k \in Keywords :
                             Status[k] = "CLOSED" /\ Undecided[k] # {}}
      /\ reopened \subseteq heard
  BY DEF Settled, Heard, Status, Undecided
<1>4. Status' = [k \in Keywords |->
                   IF k \in closed THEN "CLOSED"
                   ELSE IF k \in reopened THEN "OPEN"
                   ELSE Status[k]]
  BY <1>2 DEF Status, Settled, Heard, Unaffected
<1>5. Undecided' = [k \in Keywords |->
                      IF k \in heard THEN {} ELSE Undecided[k]]
  <2>1. \A k \in Keywords :
           Pending(claims'[k]) =
              IF k \in heard THEN {} ELSE Pending(claims[k])
    BY <1>2 DEF Settled, Heard, Unaffected, SameHistory, Pending
  <2> QED BY <2>1 DEF Undecided
<1>6. Decided' = [k \in Keywords |->
                    IF k \in heard THEN Decided[k] \cup Undecided[k]
                    ELSE Decided[k]]
  BY <1>2 DEF Decided, Undecided, Settled, Heard, Unaffected, SameHistory
<1>7. \E cl \in SUBSET {k \in Keywords : Status[k] = "OPEN"},
         he \in SUBSET {k \in Keywords :
                           Status[k] = "CLOSED" /\ Undecided[k] # {}} :
         \E re \in SUBSET he :
            /\ Status' = [k \in Keywords |->
                            IF k \in cl THEN "CLOSED"
                            ELSE IF k \in re THEN "OPEN"
                            ELSE Status[k]]
            /\ Undecided' = [k \in Keywords |->
                               IF k \in he THEN {} ELSE Undecided[k]]
            /\ Decided' = [k \in Keywords |->
                             IF k \in he THEN Decided[k] \cup Undecided[k]
                             ELSE Decided[k]]
  <2> HIDE DEF closed, heard, reopened
  <2>1. /\ closed \in SUBSET {k \in Keywords : Status[k] = "OPEN"}
        /\ heard \in SUBSET {k \in Keywords :
                                Status[k] = "CLOSED" /\ Undecided[k] # {}}
        /\ reopened \in SUBSET heard
    BY <1>3
  <2> USE <2>1
  <2> WITNESS closed \in SUBSET {k \in Keywords : Status[k] = "OPEN"},
              heard \in SUBSET {k \in Keywords :
                                  Status[k] = "CLOSED" /\ Undecided[k] # {}}
  <2> WITNESS reopened \in SUBSET heard
  <2> QED BY <1>4, <1>5, <1>6
<1>8. QED
  BY <1>1, <1>7, Zenon DEF Room!Rule, Status, Undecided, Decided

-----------------------------------------------------------------------------
(* The steps that leave the claims alone. *)

\* The run goes on, stays over, or ends: with an error, at its limit, or
\* converged, and then there is a claim.
LEMMA OtherIsRoomStep ==
    ASSUME Peopled, UNCHANGED claims,
           AgentStep \/ JudgeStep \/ RoomStep \/ RunFails \/ UNCHANGED vars
    PROVE  Room!End \/ UNCHANGED Outcome
<1>1. CASE phase' # "done" /\ phase # "done"
  BY <1>1 DEF Outcome
<1>2. CASE UNCHANGED vars
  BY <1>2 DEF vars, Outcome
<1>3. CASE phase' = "done" /\ phase # "done"
  <2>1. Outcome = "running"
    BY <1>3 DEF Outcome
  <2>2. \/ Outcome' = "error"
        \/ Outcome' = "limit"
        \/ Outcome' = "converged" /\ SomeClaim
    <3>1. CASE AgentStep
      BY <1>3, <3>1
         DEF AgentStep, StartRounds, AgentAnswers, AgentFails,
             GatherOutputs, FirstRoundFails, FinishWithError, Outcome
    <3>2. CASE JudgeStep
      BY <1>3, <3>2
         DEF JudgeStep, SkipJudgment, StartJudgment, OfferBatch,
             RejectReply, AcceptReply, DropReply, ApplyVerdicts
    <3>3. CASE NextRound
      BY <1>3, <3>3 DEF NextRound
    <3>4. CASE StopAtLimit
      BY <3>4 DEF StopAtLimit, Finish, Outcome
    <3>5. CASE Converge
      <4>1. SomeClaim
        BY <3>5, ConvergedHasClaim DEF Converge
      <4>2. Outcome' = "converged"
        BY <1>3, <3>5 DEF Converge, Finish, Outcome
      <4> QED BY <4>1, <4>2
    <3>6. CASE Summarize
      <4>1. SomeClaim
        BY <3>6 DEF Summarize, Peopled
      <4>2. Outcome' = "converged"
        BY <1>3, <3>6 DEF Summarize, Finish, Outcome
      <4> QED BY <4>1, <4>2
    <3>7. CASE RunFails
      BY <3>7 DEF RunFails, FinishWithError, Outcome
    <3>8. CASE UNCHANGED vars
      BY <1>3, <3>8 DEF vars
    <3> QED BY <3>1, <3>2, <3>3, <3>4, <3>5, <3>6, <3>7, <3>8 DEF RoomStep
  <2>3. \/ Outcome' \in {"limit", "error"}
        \/ (\E k \in Keywords : Status[k] # "ABSENT") /\ Outcome' = "converged"
    BY <2>2 DEF SomeClaim, Status
  <2> QED BY <2>1, <2>3 DEF Room!End, Status
<1>4. CASE phase = "done"
  BY <1>2, <1>4
     DEF AgentStep, StartRounds, AgentAnswers, AgentFails, GatherOutputs,
         FirstRoundFails, JudgeStep, SkipJudgment, StartJudgment, OfferBatch,
         RejectReply, AcceptReply, DropReply, ApplyVerdicts, RoomStep,
         NextRound, StopAtLimit, Converge, Summarize, RunFails
<1> QED BY <1>1, <1>2, <1>3, <1>4

\* ImplementsRoom without its liveness: for any number of agents, claims,
\* rounds and batches, the run's claims live through the room's lifecycle.
THEOREM RoomImplemented == Spec => Room!RoomSafety
<1>1. Init => Room!RoomInit
  <2> SUFFICES ASSUME Init PROVE Room!RoomInit
    OBVIOUS
  <2>1. \A k \in Keywords :
           /\ claims[k].status = "ABSENT"
           /\ Pending(claims[k]) = {}
           /\ Resolved(claims[k]) = {}
    <3>1. \A k \in Keywords :
             claims[k].status = "ABSENT" /\ Range(claims[k].entries) = {}
      BY DEF Init, NoClaim, Range
    <3> QED BY <3>1 DEF Pending, Requested, Resolved, EntriesOf
  <2>2. Outcome = "running"
    BY DEF Init, Outcome
  <2> QED BY <2>1, <2>2 DEF Room!RoomInit
<1>2. Inv /\ Peopled /\ [Next]_vars => [Room!RoomNext]_(Room!roomVars)
  <2> SUFFICES ASSUME Inv, Peopled, [Next]_vars
               PROVE  Room!RoomNext \/ UNCHANGED Room!roomVars
    OBVIOUS
  <2>1. TypeOK /\ Standing
    BY DEF Inv
  <2>2. CASE MergeStep
    BY <2>1, <2>2, MergeIsRoomStep DEF Room!RoomNext
  <2>3. CASE ApplyVerdicts
    BY <2>1, <2>3, ApplyIsRoomStep DEF Room!RoomNext
  <2>4. CASE /\ UNCHANGED claims
             /\ \/ AgentStep \/ JudgeStep \/ RoomStep \/ RunFails
                \/ UNCHANGED vars
    <3>1. Room!End \/ UNCHANGED Outcome
      BY <2>4, OtherIsRoomStep
    <3>2. UNCHANGED <<Status, Undecided, Decided>>
      BY <2>4 DEF Status, Undecided, Decided
    <3> QED BY <3>1, <3>2
            DEF Room!RoomNext, Room!roomVars, Status, Undecided, Decided
  <2>5. CASE AgentStep \/ RoomStep \/ RunFails \/ UNCHANGED vars
    <3>1. UNCHANGED claims
      BY <2>5
         DEF AgentStep, StartRounds, AgentAnswers, AgentFails, GatherOutputs,
             FirstRoundFails, RoomStep, NextRound, StopAtLimit, Converge,
             Summarize, RunFails, FinishWithError, vars
    <3> QED BY <2>4, <2>5, <3>1
  <2>6. CASE JudgeStep /\ ~ApplyVerdicts
    <3>1. UNCHANGED claims
      BY <2>6 DEF JudgeStep, SkipJudgment, StartJudgment, OfferBatch,
                  RejectReply, AcceptReply, DropReply
    <3> QED BY <2>4, <2>6, <3>1
  <2> QED BY <2>2, <2>3, <2>5, <2>6 DEF Next, Done
<1> QED BY <1>1, <1>2, InvHolds, PeopledHolds, PTL DEF Spec, Room!RoomSafety

-----------------------------------------------------------------------------
(* What the Host's verdicts make of the room.                              *)

\* The Host's latest word on a claim is of round r and did not close it.
RoutedIn(c, r) ==
    \E i \in DOMAIN c.entries :
        /\ IsLatestHost(c, i)
        /\ c.entries[i].round = r
        /\ c.entries[i].type # "CLOSED"

\* It is a CONTINUE of round r that allows progress.
SealedIn(c, r) ==
    \E i \in DOMAIN c.entries :
        /\ IsLatestHost(c, i)
        /\ c.entries[i].type = "CONTINUE"
        /\ c.entries[i].allow
        /\ c.entries[i].round = r

-----------------------------------------------------------------------------
(* The latest word of the Host. *)

\* What the Host wrote last is its latest word.
LEMMA LastIsLatest ==
    ASSUME NEW c, NEW s \in Seq(Entry), NEW t \in Seq(Entry),
           c.entries = s \o t, Len(t) > 0, t[Len(t)].type \in HostTypes
    PROVE  /\ Len(c.entries) \in DOMAIN c.entries
           /\ c.entries[Len(c.entries)] = t[Len(t)]
           /\ IsLatestHost(c, Len(c.entries))
<1>1. /\ Len(s \o t) = Len(s) + Len(t)
      /\ DOMAIN (s \o t) = 1..(Len(s) + Len(t))
      /\ (s \o t)[Len(s) + Len(t)] = t[Len(t)]
  <2>1. /\ s \o t \in Seq(Entry)
        /\ Len(s \o t) = Len(s) + Len(t)
        /\ \A i \in 1..(Len(s) + Len(t)) :
              (s \o t)[i] = IF i <= Len(s) THEN s[i] ELSE t[i - Len(s)]
    BY ConcatProperties
  <2>2. Len(s) \in Nat /\ Len(t) \in Nat
    OBVIOUS
  <2>3. /\ Len(s) + Len(t) \in 1..(Len(s) + Len(t))
        /\ ~(Len(s) + Len(t) <= Len(s))
        /\ (Len(s) + Len(t)) - Len(s) = Len(t)
    BY <2>2
  <2> QED BY <2>1, <2>2, <2>3
<1>2. Len(s) \in Nat /\ Len(t) \in Nat
  OBVIOUS
<1> QED BY <1>1, <1>2 DEF IsLatestHost

\* A CONTINUE on an OPEN claim is the latest word on it.
LEMMA ContinueIsLatest ==
    ASSUME NEW c \in Claim, NEW n \in SUBSET Agents, NEW b \in BOOLEAN,
           NEW r \in Nat, IsOpen(c)
    PROVE  /\ RoutedIn(ContinueClaim(c, n, b, r), r)
           /\ b => SealedIn(ContinueClaim(c, n, b, r), r)
<1> DEFINE e == [type |-> "CONTINUE", needs |-> n, allow |-> b, round |-> r]
           d == ContinueClaim(c, n, b, r)
<1>1. e \in Entry
  BY DEF Entry
<1>2. c.entries \in Seq(Entry)
  BY DEF Claim
<1>3. d.entries = c.entries \o <<e>>
  BY <1>1, <1>2 DEF ContinueClaim, AddEntry, Claim
<1>4. <<e>> \in Seq(Entry) /\ Len(<<e>>) = 1 /\ <<e>>[Len(<<e>>)] = e
  BY <1>1
<1>5. e.type = "CONTINUE" /\ e.round = r /\ e.allow = b
  OBVIOUS
<1> HIDE DEF e, d
<1>6. /\ Len(d.entries) \in DOMAIN d.entries
      /\ d.entries[Len(d.entries)] = e
      /\ IsLatestHost(d, Len(d.entries))
  <2> DEFINE t == <<e>>
  <2>1. /\ t \in Seq(Entry) /\ Len(t) > 0 /\ t[Len(t)] = e
        /\ t[Len(t)].type \in HostTypes
    BY <1>4, <1>5 DEF HostTypes
  <2>2. d.entries = c.entries \o t
    BY <1>3
  <2> HIDE DEF t
  <2> QED BY <1>2, <2>1, <2>2, LastIsLatest
<1>7. RoutedIn(d, r) /\ (b => SealedIn(d, r))
  BY <1>5, <1>6 DEF RoutedIn, SealedIn
<1> QED BY <1>7 DEF d

\* The verdict of a claim the Host was not heard on changes nothing but the
\* history of Host verdicts.
LEMMA FallbackFacts ==
    ASSUME NEW c \in Claim, NEW r \in Nat
    PROVE  /\ ContinueClaim(c, Agents, FALSE, r).status = c.status
           /\ Requested(ContinueClaim(c, Agents, FALSE, r)) = Requested(c)
           /\ Resolved(ContinueClaim(c, Agents, FALSE, r)) = Resolved(c)
           /\ Pending(ContinueClaim(c, Agents, FALSE, r)) = Pending(c)
<1>1. \A b \in BOOLEAN :
         /\ ContinueClaim(c, Agents, b, r).status = c.status
         /\ Requested(ContinueClaim(c, Agents, b, r)) = Requested(c)
         /\ Resolved(ContinueClaim(c, Agents, b, r)) = Resolved(c)
  BY ContinueClaimFacts
<1> QED BY <1>1 DEF Pending

\* So are decisions on requests, if there are any.
LEMMA ResolutionIsLatest ==
    ASSUME NEW c \in Claim, NEW ds \in Seq(Decision), NEW r \in Nat,
           SomeApproved(ds)
    PROVE  RoutedIn(ResolveReopenRequests(c, ds, r), r)
<1> DEFINE added == [i \in 1..Len(ds) |-> ResolutionEntry(ds[i], r)]
           d == ResolveReopenRequests(c, ds, r)
<1>1. Len(ds) \in Nat /\ DOMAIN ds = 1..Len(ds)
  OBVIOUS
<1>2. Len(ds) > 0
  BY <1>1 DEF SomeApproved
<1>3. \A i \in 1..Len(ds) :
         /\ ResolutionEntry(ds[i], r) \in Entry
         /\ ResolutionEntry(ds[i], r).type \in
               {"REOPEN_APPROVED", "REOPEN_REJECTED"}
         /\ ResolutionEntry(ds[i], r).round = r
  <2> SUFFICES ASSUME NEW i \in 1..Len(ds)
               PROVE  /\ ResolutionEntry(ds[i], r) \in Entry
                      /\ ResolutionEntry(ds[i], r).type \in
                            {"REOPEN_APPROVED", "REOPEN_REJECTED"}
                      /\ ResolutionEntry(ds[i], r).round = r
    OBVIOUS
  <2>1. ds[i] \in Decision
    BY <1>1
  <2>2. ds[i].request \in Request
    BY <2>1 DEF Decision
  <2>3. ResolutionEntry(ds[i], r) \in
           [type : {"REOPEN_APPROVED", "REOPEN_REJECTED"},
            request : Request, round : Nat]
    BY <2>2 DEF ResolutionEntry
  <2>4. ResolutionEntry(ds[i], r).round = r
    BY DEF ResolutionEntry
  <2> QED BY <2>3, <2>4 DEF Entry
<1>4. added \in Seq(Entry) /\ Len(added) = Len(ds)
  BY <1>1, <1>3
<1>5. added[Len(added)] = ResolutionEntry(ds[Len(ds)], r)
  BY <1>1, <1>2, <1>4
<1>6. c.entries \in Seq(Entry) /\ d.entries = c.entries \o added
  BY DEF Claim, ResolveReopenRequests
<1> HIDE DEF added, d
<1>7. /\ added[Len(added)].type \in {"REOPEN_APPROVED", "REOPEN_REJECTED"}
      /\ added[Len(added)].round = r
  BY <1>1, <1>2, <1>3, <1>5
<1>8. /\ Len(d.entries) \in DOMAIN d.entries
      /\ d.entries[Len(d.entries)] = added[Len(added)]
      /\ IsLatestHost(d, Len(d.entries))
  BY <1>2, <1>4, <1>6, <1>7, LastIsLatest DEF HostTypes
<1>9. RoutedIn(d, r)
  BY <1>7, <1>8 DEF RoutedIn
<1> QED BY <1>9 DEF d

-----------------------------------------------------------------------------
(* The judgment. *)

\* A claim that is or was shown in part has no verdict of the Host's own; the
\* claims that still wait for a batch have none at all.
Marks ==
    /\ \A k \in truncated :
          /\ verdicts[k] \in {NoVerdict, SealedVerdict}
          /\ claims[k].status # "ABSENT"
    /\ phase = "judge" =>
          /\ offered = HostCandidates(claims)
          /\ batch \cup unbatched \cup truncated \subseteq offered
          /\ blockers \subseteq truncated
          /\ batch \cap unbatched = {}
          /\ \A k \in batch \cup unbatched : verdicts[k] = NoVerdict

\* A candidate is a claim.
LEMMA CandidateIsClaim ==
    ASSUME Standing, NEW k \in HostCandidates(claims)
    PROVE  claims[k].status # "ABSENT"
BY DEF HostCandidates, Standing, IsOpen, Pending

\* Only a merge and the verdicts change claims.
LEMMA StepsOnClaims ==
    ASSUME [Next]_vars
    PROVE  MergeStep \/ ApplyVerdicts \/ UNCHANGED claims
<1>1. CASE AgentStep
  BY <1>1 DEF AgentStep, StartRounds, AgentAnswers, AgentFails,
              GatherOutputs, FirstRoundFails, FinishWithError
<1>2. CASE JudgeStep
  BY <1>2 DEF JudgeStep, SkipJudgment, StartJudgment, OfferBatch,
              RejectReply, AcceptReply, DropReply
<1>3. CASE RoomStep
  BY <1>3 DEF RoomStep, NextRound, StopAtLimit, Converge, Summarize
<1>4. CASE RunFails
  BY <1>4 DEF RunFails, FinishWithError
<1>5. CASE UNCHANGED vars
  BY <1>5 DEF vars
<1> QED BY <1>1, <1>2, <1>3, <1>4, <1>5 DEF Next, Done

\* Outside of a judgment nothing about it changes.
LEMMA StepsOnJudgment ==
    ASSUME [Next]_vars
    PROVE  \/ UNCHANGED judgeVars /\ (phase' = "judge" => phase = "judge" /\ UNCHANGED claims)
           \/ StartJudgment \/ OfferBatch \/ AcceptReply
           \/ RejectReply \/ DropReply \/ ApplyVerdicts
<1>1. CASE AgentStep
  BY <1>1 DEF AgentStep, StartRounds, AgentAnswers, AgentFails,
              GatherOutputs, FirstRoundFails, FinishWithError
<1>2. CASE MergeStep
  BY <1>2 DEF MergeStep, MergeNewClaim, MergeResponse, MergeReopenRequest,
              NextResponse
<1>3. CASE JudgeStep
  BY <1>3 DEF JudgeStep, SkipJudgment
<1>4. CASE RoomStep
  BY <1>4 DEF RoomStep, NextRound, StopAtLimit, Converge, Summarize, Finish
<1>5. CASE RunFails
  BY <1>5 DEF RunFails, FinishWithError
<1>6. CASE UNCHANGED vars
  BY <1>6 DEF vars
<1> QED BY <1>1, <1>2, <1>3, <1>4, <1>5, <1>6 DEF Next, Done

LEMMA MarksHold == Spec => []Marks
<1>1. Init => Marks
  BY DEF Init, Marks
<1>2. Inv /\ Marks /\ [Next]_vars => Marks'
  <2> SUFFICES ASSUME Inv, Marks, [Next]_vars
               PROVE  Marks'
    OBVIOUS
  <2>1. TypeOK /\ Standing
    BY DEF Inv
  <2>2. \A k \in Keywords :
           claims[k].status # "ABSENT" => claims'[k].status # "ABSENT"
    BY <2>1, StepEvolves DEF Unaffected, Proposed, Asked, Settled, Heard
  <2>3. truncated \subseteq Keywords
    BY <2>1 DEF TypeOK
  <2>4. CASE UNCHANGED judgeVars
             /\ (phase' = "judge" => phase = "judge" /\ UNCHANGED claims)
    BY <2>2, <2>3, <2>4 DEF Marks, judgeVars, batchVars
  <2>5. CASE StartJudgment
    BY <2>5 DEF StartJudgment, Marks, NoVerdicts, HostCandidates
  <2>6. CASE OfferBatch
    <3>1. PICK claimSet \in SUBSET unbatched \ {{}} :
             /\ batch' = claimSet
             /\ unbatched' = unbatched \ claimSet
             /\ \E cut \in SUBSET claimSet : truncated' = truncated \cup cut
      BY <2>6 DEF OfferBatch
    <3>2. /\ phase = "judge"
          /\ UNCHANGED <<claims, phase, offered, verdicts, blockers>>
      BY <2>6 DEF OfferBatch
    <3>3. \A k \in unbatched : claims[k].status # "ABSENT"
      BY <2>1, <3>2, CandidateIsClaim DEF Marks
    <3> QED BY <3>1, <3>2, <3>3 DEF Marks
  <2>7. CASE AcceptReply
    <3>1. /\ phase = "judge"
          /\ UNCHANGED <<claims, phase, offered, unbatched, truncated>>
          /\ batch' = {}
          /\ blockers' = blockers \cup Cut
      BY <2>7 DEF AcceptReply
    <3>2. \A k \in Keywords \ (batch \ Cut) :
             verdicts'[k] = IF k \in Cut THEN SealedVerdict ELSE verdicts[k]
      BY <2>7 DEF AcceptReply
    <3>3. /\ Cut = batch \cap truncated
          /\ unbatched \subseteq Keywords
      BY <2>1 DEF Cut, TypeOK
    <3> QED BY <2>3, <3>1, <3>2, <3>3 DEF Marks
  <2>8. CASE RejectReply
    BY <2>8 DEF RejectReply, Marks
  <2>9. CASE DropReply
    BY <2>9 DEF DropReply, Marks, TruncatedReopens, Cut
  <2>10. CASE ApplyVerdicts
    BY <2>2, <2>3, <2>10 DEF ApplyVerdicts, Marks, batchVars
  <2> QED BY <2>4, <2>5, <2>6, <2>7, <2>8, <2>9, <2>10, StepsOnJudgment
<1> QED BY <1>1, <1>2, InvHolds, PTL DEF Spec

\* A claim shown in part gets a CONTINUE or nothing.
LEMMA TruncatedVerdict ==
    ASSUME Marks, TypeOK, ApplyVerdicts, NEW k \in truncated
    PROVE  /\ k \in offered
           /\ claims'[k] = ContinueClaim(claims[k], Agents, FALSE, round)
<1>1. /\ phase = "judge" /\ k \in offered /\ k \in Keywords
      /\ verdicts[k] \in {NoVerdict, SealedVerdict}
  BY DEF ApplyVerdicts, Marks, TypeOK
<1>2. claims'[k] = IF Accepts(k) THEN ApplyVerdict(claims[k], verdicts[k])
                   ELSE Fallback(claims[k])
  BY <1>1 DEF ApplyVerdicts
<1>3. Accepts(k) => verdicts[k] = SealedVerdict
  BY <1>1 DEF Accepts, NoVerdict
<1>4. ApplyVerdict(claims[k], SealedVerdict) =
         ContinueClaim(claims[k], Agents, FALSE, round)
  BY DEF ApplyVerdict, SealedVerdict
<1> QED BY <1>1, <1>2, <1>3, <1>4 DEF Fallback

\* What the Host was shown in part it neither closes nor reopens.
THEOREM TruncatedIsKept == Spec => TruncatedKeepsStatus
<1>1. Inv /\ Marks /\ [Next]_vars =>
         \A k \in truncated : claims'[k].status = claims[k].status
  <2> SUFFICES ASSUME Inv, Marks, [Next]_vars, NEW k \in truncated
               PROVE  claims'[k].status = claims[k].status
    OBVIOUS
  <2>1. /\ TypeOK /\ Standing /\ k \in Keywords
        /\ claims[k] \in Claim /\ round \in Nat
    BY RoundsAssumption DEF Inv, TypeOK
  <2>2. CASE MergeStep
    <3>1. claims[k].status # "ABSENT"
      BY DEF Marks
    <3> QED BY <2>1, <2>2, <3>1, MergeEvolves DEF Unaffected, Proposed, Asked
  <2>3. CASE ApplyVerdicts
    <3>1. claims'[k] = ContinueClaim(claims[k], Agents, FALSE, round)
      BY <2>1, <2>3, TruncatedVerdict DEF Inv
    <3> QED BY <2>1, <3>1, FallbackFacts
  <2> QED BY <2>2, <2>3, StepsOnClaims
<1> QED BY <1>1, InvHolds, MarksHold, PTL DEF TruncatedKeepsStatus, Spec

-----------------------------------------------------------------------------
(* The verdicts. *)

\* What happens to one claim when the verdicts are applied.
LEMMA VerdictCases ==
    ASSUME TypeOK, Marks, ApplyVerdicts, NEW k \in Keywords
    PROVE  \/ /\ k \notin HostCandidates(claims)
              /\ claims'[k] = claims[k]
           \/ /\ k \in HostCandidates(claims) /\ k \in rejected'
              /\ claims'[k].status = claims[k].status
              /\ Pending(claims'[k]) = Pending(claims[k])
              /\ IsOpen(claims[k]) => RoutedIn(claims'[k], round)
           \/ /\ verdicts[k].kind = "CONTINUE" /\ k \in accepted'
              /\ IsOpen(claims'[k])
              /\ RoutedIn(claims'[k], round)
              /\ verdicts[k].allow => SealedIn(claims'[k], round)
           \/ IsClosed(claims'[k]) /\ ~(k \in offered /\ Accepts(k) /\ Approves(verdicts[k]))
           \/ /\ IsOpen(claims'[k]) /\ k \in blockers'
              /\ RoutedIn(claims'[k], round)
<1> DEFINE c == claims[k]
           d == claims'[k]
           v == verdicts[k]
<1>1. /\ round \in Nat /\ c \in Claim /\ v \in Verdict
      /\ offered = HostCandidates(claims)
  BY RoundsAssumption DEF TypeOK, Marks, ApplyVerdicts
<1>2. d = IF k \notin offered THEN c
          ELSE IF Accepts(k) THEN ApplyVerdict(c, v)
          ELSE ContinueClaim(c, Agents, FALSE, round)
  BY DEF ApplyVerdicts, Fallback
<1>3. /\ accepted' = {j \in offered : Accepts(j)}
      /\ rejected' = {j \in offered : ~Accepts(j)}
      /\ blockers' = blockers \cup
                       {j \in offered : Accepts(j) /\ Approves(verdicts[j])}
  BY DEF ApplyVerdicts
<1>4. CASE k \notin offered
  BY <1>1, <1>2, <1>4
<1>5. CASE k \in offered /\ ~Accepts(k)
  <2>1. Agents \in SUBSET Agents /\ FALSE \in BOOLEAN
    OBVIOUS
  <2>2. d = ContinueClaim(c, Agents, FALSE, round)
    BY <1>2, <1>5
  <2>3. d.status = c.status /\ Pending(d) = Pending(c)
    BY <1>1, <2>2, FallbackFacts
  <2>4. IsOpen(c) => RoutedIn(d, round)
    BY <1>1, <2>1, <2>2, ContinueIsLatest
  <2>5. k \in rejected'
    BY <1>3, <1>5
  <2> QED BY <1>1, <1>5, <2>3, <2>4, <2>5
<1>6. ASSUME k \in offered, Accepts(k), v.kind = "CONTINUE"
      PROVE  /\ k \in accepted' /\ IsOpen(d)
             /\ RoutedIn(d, round)
             /\ v.allow => SealedIn(d, round)
  <2>1. d = ContinueClaim(c, v.needs, v.allow, round) /\ IsOpen(c)
    BY <1>2, <1>6 DEF ApplyVerdict, Accepts
  <2>2. v.needs \in SUBSET Agents /\ v.allow \in BOOLEAN
    BY <1>1, <1>6 DEF Verdict
  <2>3. d.status = c.status
    BY <1>1, <2>1, <2>2, ContinueClaimFacts
  <2>4. RoutedIn(d, round) /\ (v.allow => SealedIn(d, round))
    BY <1>1, <2>1, <2>2, ContinueIsLatest
  <2> QED BY <1>3, <1>6, <2>1, <2>3, <2>4 DEF IsOpen
<1>7. ASSUME k \in offered, Accepts(k), v.kind = "CLOSE"
      PROVE  IsClosed(d) /\ ~Approves(v)
  <2>1. d = CloseClaim(c, round)
    BY <1>2, <1>7 DEF ApplyVerdict
  <2> QED BY <1>1, <1>7, <2>1, CloseClaimFacts DEF IsClosed, Approves
<1>8. ASSUME k \in offered, Accepts(k), v.kind = "REOPEN"
      PROVE  \/ IsClosed(d) /\ ~Approves(v)
             \/ IsOpen(d) /\ k \in blockers' /\ RoutedIn(d, round)
  <2>1. d = ResolveReopenRequests(c, v.decisions, round)
    BY <1>2, <1>8 DEF ApplyVerdict
  <2>2. IsClosed(c) /\ DecidesExactly(v.decisions, Pending(c))
    BY <1>8 DEF Accepts
  <2>3. d.status = IF SomeApproved(v.decisions) THEN "OPEN" ELSE c.status
    BY <2>1 DEF ResolveReopenRequests
  <2>4. CASE SomeApproved(v.decisions)
    <3>1. v.decisions \in Seq(Decision)
      BY <2>2 DEF DecidesExactly
    <3>2. RoutedIn(d, round)
      BY <1>1, <2>1, <2>4, <3>1, ResolutionIsLatest
    <3>3. k \in blockers'
      BY <1>3, <1>8, <2>4 DEF Approves
    <3> QED BY <2>3, <2>4, <3>2, <3>3 DEF IsOpen
  <2>5. CASE ~SomeApproved(v.decisions)
    BY <2>2, <2>3, <2>5 DEF IsClosed, Approves
  <2> QED BY <2>4, <2>5
<1>9. k \in offered /\ Accepts(k) =>
         v.kind \in {"CONTINUE", "CLOSE", "REOPEN"}
  BY DEF Accepts
<1> HIDE DEF c, d, v
<1>10. CASE k \in offered /\ Accepts(k)
  BY <1>6, <1>7, <1>8, <1>9, <1>10 DEF c, d, v
<1> QED BY <1>4, <1>5, <1>10

\* After the verdicts every OPEN claim is routed.
LEMMA ApplyRoutes ==
    ASSUME TypeOK, Marks, ApplyVerdicts, NEW k \in OpenClaims(claims')
    PROVE  RoutedIn(claims'[k], round)
<1>1. k \in Keywords /\ IsOpen(claims'[k])
  BY DEF OpenClaims
<1>2. k \notin HostCandidates(claims) => ~IsOpen(claims[k])
  BY <1>1 DEF HostCandidates
<1> QED BY <1>1, <1>2, VerdictCases DEF IsOpen, IsClosed

\* If the room has converged they are sealed as well.
LEMMA ApplySeals ==
    ASSUME TypeOK, Marks, ApplyVerdicts, RoomConverged',
           NEW k \in OpenClaims(claims')
    PROVE  SealedIn(claims'[k], round)
<1>1. k \in Keywords /\ IsOpen(claims'[k])
  BY DEF OpenClaims
<1>2. k \notin HostCandidates(claims) => ~IsOpen(claims[k])
  BY <1>1 DEF HostCandidates
<1>3. OpenClaims(claims)' = OpenClaims(claims')
  BY DEF OpenClaims
<1>4. /\ \A j \in accepted' : ~Unbounded(verdicts[j])
      /\ rejected' = {}
      /\ blockers' = {}
  BY <1>3 DEF RoomConverged, ApplyVerdicts
<1> QED BY <1>1, <1>2, <1>4, VerdictCases
        DEF IsOpen, IsClosed, Unbounded

\* If the Host found the room CONVERGED and the code did not, a claim is left
\* to ask it about.
LEMMA ApplyLeavesCandidates ==
    ASSUME TypeOK, Marks, ApplyVerdicts, ~RoomConverged',
           adjudication = "CONVERGED"
    PROVE  HostCandidates(claims') # {}
<1>1. \A k \in Keywords :
         IsOpen(claims'[k]) \/ Pending(claims'[k]) # {} =>
            HostCandidates(claims') # {}
  BY DEF HostCandidates
<1>2. /\ adjudication' = "CONVERGED" /\ offered' = offered
      /\ UNCHANGED verdicts
      /\ accepted' = {k \in offered : Accepts(k)}
      /\ rejected' = {k \in offered : ~Accepts(k)}
      /\ blockers' = blockers \cup
                       {k \in offered : Accepts(k) /\ Approves(verdicts[k])}
      /\ offered = HostCandidates(claims)
      /\ blockers \subseteq truncated
  BY DEF ApplyVerdicts, Marks
<1>3. offered \subseteq Keywords /\ truncated \subseteq Keywords
  BY DEF TypeOK
<1>4. \/ \E k \in accepted' : Unbounded(verdicts[k])
      \/ \E k \in Keywords : Pending(claims'[k]) # {}
      \/ rejected' # {}
      \/ blockers' # {}
  BY <1>2 DEF RoomConverged, HasPending, Pending, Requested, Resolved,
              EntriesOf
<1>5. ASSUME NEW k \in rejected'
      PROVE  HostCandidates(claims') # {}
  <2>1. k \in HostCandidates(claims) /\ k \in Keywords /\ ~Accepts(k)
    BY <1>2, <1>3, <1>5
  <2>2. IsOpen(claims[k]) \/ Pending(claims[k]) # {}
    BY <2>1 DEF HostCandidates
  <2>3. claims'[k] = ContinueClaim(claims[k], Agents, FALSE, round)
    BY <1>2, <2>1 DEF ApplyVerdicts, Fallback
  <2>4. round \in Nat /\ claims[k] \in Claim
    BY <2>1, RoundsAssumption DEF TypeOK
  <2>5. /\ claims'[k].status = claims[k].status
        /\ Pending(claims'[k]) = Pending(claims[k])
    BY <2>3, <2>4, FallbackFacts
  <2> QED BY <1>1, <2>1, <2>2, <2>5 DEF IsOpen
<1>6. ASSUME NEW k \in accepted', Unbounded(verdicts[k])
      PROVE  HostCandidates(claims') # {}
  <2>1. /\ k \in Keywords /\ k \in offered /\ Accepts(k)
        /\ verdicts[k].kind = "CONTINUE"
    BY <1>2, <1>3, <1>6 DEF Unbounded
  <2>2. ~Approves(verdicts[k]) /\ k \in HostCandidates(claims) /\ k \notin rejected'
    BY <1>2, <2>1 DEF Approves
  <2>3. IsOpen(claims[k])
    BY <2>1 DEF Accepts
  <2>4. claims'[k] = ContinueClaim(claims[k], verdicts[k].needs,
                                   verdicts[k].allow, round)
    BY <2>1 DEF ApplyVerdicts, ApplyVerdict
  <2>5. /\ verdicts[k].needs \in SUBSET Agents
        /\ verdicts[k].allow \in BOOLEAN
        /\ round \in Nat /\ claims[k] \in Claim
    BY <2>1, RoundsAssumption DEF TypeOK, Verdict
  <2>6. claims'[k].status = claims[k].status
    BY <2>4, <2>5, ContinueClaimFacts
  <2> QED BY <1>1, <2>1, <2>3, <2>6 DEF IsOpen
<1>7. ASSUME NEW k \in blockers', k \notin blockers
      PROVE  HostCandidates(claims') # {}
  <2>1. /\ k \in offered /\ k \in Keywords /\ Accepts(k)
        /\ Approves(verdicts[k])
    BY <1>2, <1>3, <1>7
  <2>2. claims'[k].status = "OPEN"
    BY <2>1 DEF ApplyVerdicts, ApplyVerdict, Approves, ResolveReopenRequests
  <2> QED BY <1>1, <2>1, <2>2 DEF IsOpen
<1>8. ASSUME NEW k \in blockers
      PROVE  HostCandidates(claims') # {}
  <2>1. k \in truncated /\ k \in Keywords
    BY <1>2, <1>3, <1>8
  <2>2. /\ k \in HostCandidates(claims)
        /\ claims'[k] = ContinueClaim(claims[k], Agents, FALSE, round)
    BY <1>2, <2>1, TruncatedVerdict
  <2>3. IsOpen(claims[k]) \/ Pending(claims[k]) # {}
    BY <2>2 DEF HostCandidates
  <2>4. round \in Nat /\ claims[k] \in Claim
    BY <2>1, RoundsAssumption DEF TypeOK
  <2>5. /\ claims'[k].status = claims[k].status
        /\ Pending(claims'[k]) = Pending(claims[k])
    BY <2>2, <2>4, FallbackFacts
  <2> QED BY <1>1, <2>1, <2>3, <2>5 DEF IsOpen
<1> QED BY <1>1, <1>4, <1>5, <1>6, <1>7, <1>8

-----------------------------------------------------------------------------
(* The rounds. *)

\* From one judgment to the next: a CONVERGED that did not end the run has
\* left candidates, what is OPEN is routed, and if the room has converged it
\* is sealed.
Between ==
    /\ phase = "start" => round = 1
    /\ phase \in {"start", "agents", "merge"} /\ adjudication = "CONVERGED" =>
          HostCandidates(claims) # {}
    /\ phase = "room" /\ adjudication = "CONVERGED" /\ ~RoomConverged =>
          HostCandidates(claims) # {}
    /\ phase = "room" =>
          \A k \in OpenClaims(claims) : RoutedIn(claims[k], round)
    /\ phase = "agents" /\ round > 1 =>
          \A k \in OpenClaims(claims) : RoutedIn(claims[k], round - 1)
    /\ (phase = "room" /\ RoomConverged) \/ phase = "summary" =>
          \A k \in OpenClaims(claims) : SealedIn(claims[k], round)
    /\ result.converged =>
          /\ phase = "done" /\ SomeClaim
          /\ \A k \in OpenClaims(claims) : SealedIn(claims[k], result.rounds)

\* A merge closes no claim and decides no request.
LEMMA CandidatesStay ==
    ASSUME TypeOK, Standing, MergeStep, HostCandidates(claims) # {}
    PROVE  HostCandidates(claims') # {}
<1>1. PICK k \in Keywords : IsOpen(claims[k]) \/ Pending(claims[k]) # {}
  BY DEF HostCandidates
<1>2. IsOpen(claims'[k]) \/ Pending(claims'[k]) # {}
  BY <1>1, MergeEvolves
     DEF Unaffected, Proposed, Asked, SameHistory, IsOpen, Pending, Standing
<1> QED BY <1>2 DEF HostCandidates

\* The definitions that depend on claims only.
LEMMA SameClaims ==
    ASSUME UNCHANGED claims
    PROVE  /\ HostCandidates(claims)' = HostCandidates(claims)
           /\ OpenClaims(claims)' = OpenClaims(claims)
           /\ SomeClaim' = SomeClaim
           /\ UNCHANGED <<offered, accepted, rejected, blockers, verdicts,
                          adjudication>> => RoomConverged' = RoomConverged
BY DEF HostCandidates, OpenClaims, SomeClaim, RoomConverged, HasPending,
       Pending, Requested, Resolved, EntriesOf

LEMMA BetweenHolds == Spec => []Between
<1>1. Init => Between
  BY DEF Init, Between, NoResult
<1>2. Inv /\ Marks /\ Peopled /\ Between /\ [Next]_vars => Between'
  <2> SUFFICES ASSUME Inv, Marks, Peopled, Between, [Next]_vars
               PROVE  Between'
    OBVIOUS
  <2>1. TypeOK /\ Standing
    BY DEF Inv
  <2>2. /\ HostCandidates(claims)' = HostCandidates(claims')
        /\ OpenClaims(claims)' = OpenClaims(claims')
    BY DEF HostCandidates, OpenClaims
  <2>3. CASE AgentStep
    <3>1. /\ UNCHANGED <<claims, round, judgeVars>>
          /\ phase \in {"start", "agents"}
          /\ phase' \in {"agents", "merge", "done"}
          /\ phase' = "agents" => phase \in {"start", "agents"}
          /\ result' = result \/ ~result'.converged
      BY <2>3 DEF AgentStep, StartRounds, AgentAnswers, AgentFails,
                  GatherOutputs, FirstRoundFails, FinishWithError
    <3> QED BY <3>1, SameClaims DEF Between, judgeVars, RoutedIn, IsLatestHost
  <2>4. CASE MergeStep
    <3>1. /\ UNCHANGED <<phase, round, judgeVars, result>>
          /\ phase = "merge"
      BY <2>4 DEF MergeStep, MergeNewClaim, MergeResponse,
                  MergeReopenRequest, NextResponse
    <3> QED BY <2>1, <2>2, <2>4, <3>1, CandidatesStay DEF Between, judgeVars
  <2>5. CASE SkipJudgment
    <3>1. /\ UNCHANGED <<claims, round, judgeVars, result>>
          /\ phase = "merge" /\ phase' = "room"
          /\ HostCandidates(claims) = {}
      BY <2>5 DEF SkipJudgment
    <3>2. OpenClaims(claims) = {}
      BY <3>1 DEF HostCandidates, OpenClaims
    <3> QED BY <3>1, <3>2, SameClaims DEF Between, judgeVars
  <2>6. CASE StartJudgment \/ OfferBatch \/ RejectReply \/ AcceptReply
             \/ DropReply
    <3>1. /\ phase' = "judge" /\ phase # "done"
          /\ UNCHANGED result
      BY <2>6 DEF StartJudgment, OfferBatch, RejectReply, AcceptReply,
                  DropReply
    <3> QED BY <3>1 DEF Between
  <2>7. CASE ApplyVerdicts
    <3>1. /\ UNCHANGED <<round, result, adjudication>>
          /\ phase = "judge" /\ phase' = "room"
      BY <2>7 DEF ApplyVerdicts
    <3>2. \A k \in OpenClaims(claims') : RoutedIn(claims'[k], round)
      BY <2>1, <2>7, ApplyRoutes
    <3>3. RoomConverged' =>
             \A k \in OpenClaims(claims') : SealedIn(claims'[k], round)
      BY <2>1, <2>7, ApplySeals
    <3>4. adjudication = "CONVERGED" /\ ~RoomConverged' =>
             HostCandidates(claims') # {}
      BY <2>1, <2>7, ApplyLeavesCandidates
    <3> QED BY <2>2, <3>1, <3>2, <3>3, <3>4
            DEF Between, RoutedIn, SealedIn, IsLatestHost
  <2>8. CASE NextRound
    <3>1. /\ UNCHANGED <<claims, judgeVars, result>>
          /\ phase = "room" /\ phase' = "agents" /\ ~RoomConverged
          /\ round' = round + 1 /\ round \in Nat
      BY <2>1, <2>8, RoundsAssumption DEF NextRound, TypeOK
    <3>2. round' - 1 = round
      BY <3>1
    <3> QED BY <3>1, <3>2, SameClaims
            DEF Between, judgeVars, RoutedIn, IsLatestHost
  <2>9. CASE StopAtLimit \/ RunFails
    <3>1. phase' = "done" /\ ~result'.converged
      BY <2>9 DEF StopAtLimit, RunFails, Finish, FinishWithError
    <3> QED BY <3>1 DEF Between
  <2>10. CASE Converge \/ Summarize
    <3>1. /\ UNCHANGED <<claims, round, judgeVars>>
          /\ (phase = "room" /\ RoomConverged) \/ phase = "summary"
          /\ \/ phase' = "summary" /\ UNCHANGED result
             \/ phase' = "done" /\ result'.rounds = round
      BY <2>10 DEF Converge, Summarize, Finish
    <3>2. SomeClaim
      BY <3>1, ConvergedHasClaim DEF Peopled
    <3>3. \A k \in OpenClaims(claims) : SealedIn(claims[k], round)
      BY <3>1 DEF Between
    <3>4. phase # "done"
      BY <3>1
    <3> QED BY <3>1, <3>2, <3>3, <3>4, SameClaims
            DEF Between, judgeVars, SealedIn, IsLatestHost
  <2>11. CASE UNCHANGED vars
    BY <2>11, SameClaims
       DEF vars, Between, judgeVars, RoutedIn, SealedIn, IsLatestHost
  <2> QED BY <2>3, <2>4, <2>5, <2>6, <2>7, <2>8, <2>9, <2>10, <2>11
          DEF Next, Done, JudgeStep, RoomStep
<1> QED BY <1>1, <1>2, InvHolds, MarksHold, PeopledHolds, PTL DEF Spec

\* A CONVERGED of an earlier round never decides on a round without
\* candidates.
THEOREM ConvergedIsFresh == Spec => []NoStaleConvergence
<1>1. Between => NoStaleConvergence
  BY DEF Between, NoStaleConvergence
<1> QED BY <1>1, BetweenHolds, PTL

\* Every OPEN claim that agents are asked about was routed in the round
\* before.
THEOREM OpenClaimsRouted == Spec => []OpenClaimsAreRouted
<1>1. Between => OpenClaimsAreRouted
  BY DEF Between, OpenClaimsAreRouted, RoutedIn
<1> QED BY <1>1, BetweenHolds, PTL

\* In a converged room what is OPEN was continued in the last round by a
\* verdict that allows progress.
THEOREM ConvergedRoomSealed == Spec => []ConvergedIsSealed
<1>1. Between => ConvergedIsSealed
  BY DEF Between, ConvergedIsSealed, SealedIn, LatestContinue, SomeClaim
<1> QED BY <1>1, BetweenHolds, PTL
=============================================================================
