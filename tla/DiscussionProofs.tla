-------------------------- MODULE DiscussionProofs --------------------------
(***************************************************************************)
(* Theorems about Discussion, for any number of agents, keywords and       *)
(* rounds.                                                                 *)
(***************************************************************************)
EXTENDS Discussion, SequenceTheorems, TLAPS

-----------------------------------------------------------------------------
(* What each update of a claim does to its status, to the requests in its  *)
(* history and to the decisions on them.  The entries themselves are used  *)
(* only here: what follows cites these lemmas.                             *)

\* The values of a sequence extended by one element.
LEMMA RangeOfAppend ==
    ASSUME NEW S, NEW s \in Seq(S), NEW e \in S
    PROVE  /\ Append(s, e) \in Seq(S)
           /\ Range(Append(s, e)) = Range(s) \cup {e}
<1>1. /\ Append(s, e) \in Seq(S)
      /\ DOMAIN Append(s, e) = 1..(Len(s) + 1)
      /\ DOMAIN s = 1..Len(s)
      /\ Len(s) \in Nat
      /\ \A i \in 1..Len(s) : Append(s, e)[i] = s[i]
      /\ Append(s, e)[Len(s) + 1] = e
  OBVIOUS
<1>2. Range(Append(s, e)) \subseteq Range(s) \cup {e}
  <2>1. SUFFICES ASSUME NEW i \in 1..(Len(s) + 1)
                 PROVE  Append(s, e)[i] \in Range(s) \cup {e}
    BY <1>1 DEF Range
  <2>2. CASE i = Len(s) + 1
    BY <1>1, <2>2
  <2>3. CASE i \in 1..Len(s)
    BY <1>1, <2>3 DEF Range
  <2> QED BY <1>1, <2>2, <2>3
<1>3. Range(s) \cup {e} \subseteq Range(Append(s, e))
  BY <1>1 DEF Range
<1> QED BY <1>1, <1>2, <1>3

\* An entry appended to a claim leaves its status and adds to its history.
LEMMA AddEntryFacts ==
    ASSUME NEW c \in Claim, NEW e \in Entry
    PROVE  /\ AddEntry(c, e) \in Claim
           /\ AddEntry(c, e).status = c.status
           /\ Range(AddEntry(c, e).entries) = Range(c.entries) \cup {e}
<1>1. c.entries \in Seq(Entry)
  BY DEF Claim
<1>2. /\ Append(c.entries, e) \in Seq(Entry)
      /\ Range(Append(c.entries, e)) = Range(c.entries) \cup {e}
  BY <1>1, RangeOfAppend
<1>3. AddEntry(c, e) = [status |-> c.status, entries |-> Append(c.entries, e)]
  BY DEF AddEntry, Claim
<1> QED BY <1>2, <1>3 DEF Claim

\* An entry that is neither a request nor a decision changes neither set.
LEMMA OtherEntryFacts ==
    ASSUME NEW c \in Claim, NEW e \in Entry,
           e.type \notin {"REOPEN_REQUEST", "REOPEN_APPROVED",
                          "REOPEN_REJECTED"}
    PROVE  /\ Requested(AddEntry(c, e)) = Requested(c)
           /\ Resolved(AddEntry(c, e)) = Resolved(c)
BY AddEntryFacts DEF Requested, Resolved, EntriesOf

\* The history of a new claim holds no request.
LEMMA NewClaimFacts ==
    ASSUME NEW a \in Agents, NEW r \in Nat
    PROVE  /\ NewClaim(a, r) \in Claim
           /\ IsOpen(NewClaim(a, r))
           /\ Requested(NewClaim(a, r)) = {}
           /\ Resolved(NewClaim(a, r)) = {}
<1> DEFINE e == [type |-> "FROM", agent |-> a, round |-> r]
<1>1. e \in Entry
  BY DEF Entry
<1>2. <<e>> \in Seq(Entry) /\ Range(<<e>>) = {e}
  BY <1>1 DEF Range
<1>3. NewClaim(a, r) = [status |-> "OPEN", entries |-> <<e>>]
  BY DEF NewClaim
<1> HIDE DEF e
<1>4. e.type = "FROM"
  BY DEF e
<1> QED BY <1>2, <1>3, <1>4 DEF Claim, IsOpen, Requested, Resolved, EntriesOf

\* A response changes neither the status nor the requests.
LEMMA AddResponseFacts ==
    ASSUME NEW c \in Claim, NEW a \in Agents, NEW r \in Nat
    PROVE  /\ AddResponse(c, a, r) \in Claim
           /\ AddResponse(c, a, r).status = c.status
           /\ Requested(AddResponse(c, a, r)) = Requested(c)
           /\ Resolved(AddResponse(c, a, r)) = Resolved(c)
<1> DEFINE e == [type |-> "RESPONSE", agent |-> a, round |-> r]
<1>1. e \in Entry /\ e.type = "RESPONSE"
  BY DEF Entry
<1>2. AddResponse(c, a, r) = AddEntry(c, e)
  BY DEF AddResponse
<1> HIDE DEF e
<1> QED BY <1>1, <1>2, AddEntryFacts, OtherEntryFacts

\* A reopen request is added to the requests and changes nothing else.
LEMMA AddReopenRequestFacts ==
    ASSUME NEW c \in Claim, NEW q \in Request
    PROVE  /\ AddReopenRequest(c, q) \in Claim
           /\ AddReopenRequest(c, q).status = c.status
           /\ Requested(AddReopenRequest(c, q)) = Requested(c) \cup {q}
           /\ Resolved(AddReopenRequest(c, q)) = Resolved(c)
<1> DEFINE e == [type |-> "REOPEN_REQUEST", request |-> q, round |-> q.round]
<1>1. e \in Entry /\ e.type = "REOPEN_REQUEST" /\ e.request = q
  BY DEF Entry, Request
<1>2. AddReopenRequest(c, q) = AddEntry(c, e)
  BY DEF AddReopenRequest
<1> HIDE DEF e
<1>3. /\ AddReopenRequest(c, q) \in Claim
      /\ AddReopenRequest(c, q).status = c.status
      /\ Range(AddReopenRequest(c, q).entries) = Range(c.entries) \cup {e}
  BY <1>1, <1>2, AddEntryFacts
<1> QED BY <1>1, <1>3 DEF Requested, Resolved, EntriesOf

\* A closed claim is CLOSED and its requests are what they were.
LEMMA CloseClaimFacts ==
    ASSUME NEW c \in Claim, NEW r \in Nat
    PROVE  /\ CloseClaim(c, r) \in Claim
           /\ CloseClaim(c, r).status = "CLOSED"
           /\ Requested(CloseClaim(c, r)) = Requested(c)
           /\ Resolved(CloseClaim(c, r)) = Resolved(c)
<1> DEFINE e == [type |-> "CLOSED", round |-> r]
           d == AddEntry(c, e)
<1>1. e \in Entry /\ e.type = "CLOSED"
  BY DEF Entry
<1>2. CloseClaim(c, r) = [d EXCEPT !.status = "CLOSED"]
  BY DEF CloseClaim
<1>3. /\ d \in Claim
      /\ Requested(d) = Requested(c)
      /\ Resolved(d) = Resolved(c)
  <2> HIDE DEF e
  <2> QED BY <1>1, AddEntryFacts, OtherEntryFacts
<1> HIDE DEF d
<1>4. /\ CloseClaim(c, r) \in Claim
      /\ CloseClaim(c, r).status = "CLOSED"
      /\ CloseClaim(c, r).entries = d.entries
  BY <1>2, <1>3 DEF Claim
<1> QED BY <1>3, <1>4 DEF Requested, Resolved, EntriesOf

\* A CONTINUE changes neither the status nor the requests.
LEMMA ContinueClaimFacts ==
    ASSUME NEW c \in Claim, NEW n \in SUBSET Agents, NEW b \in BOOLEAN,
           NEW r \in Nat
    PROVE  /\ ContinueClaim(c, n, b, r) \in Claim
           /\ ContinueClaim(c, n, b, r).status = c.status
           /\ Requested(ContinueClaim(c, n, b, r)) = Requested(c)
           /\ Resolved(ContinueClaim(c, n, b, r)) = Resolved(c)
<1> DEFINE e == [type |-> "CONTINUE", needs |-> n, allow |-> b, round |-> r]
<1>1. e \in Entry /\ e.type = "CONTINUE"
  BY DEF Entry
<1>2. ContinueClaim(c, n, b, r) = IF IsOpen(c) THEN AddEntry(c, e) ELSE c
  BY DEF ContinueClaim
<1> HIDE DEF e
<1> QED BY <1>1, <1>2, AddEntryFacts, OtherEntryFacts

\* The values of a concatenation.
LEMMA RangeOfConcat ==
    ASSUME NEW S, NEW s \in Seq(S), NEW t \in Seq(S)
    PROVE  /\ s \o t \in Seq(S)
           /\ Range(s \o t) = Range(s) \cup Range(t)
<1>1. /\ s \o t \in Seq(S)
      /\ Len(s \o t) = Len(s) + Len(t)
      /\ \A i \in 1..(Len(s) + Len(t)) :
            (s \o t)[i] = IF i <= Len(s) THEN s[i] ELSE t[i - Len(s)]
  BY ConcatProperties
<1>2. /\ Len(s) \in Nat
      /\ Len(t) \in Nat
      /\ DOMAIN s = 1..Len(s)
      /\ DOMAIN t = 1..Len(t)
      /\ DOMAIN (s \o t) = 1..(Len(s) + Len(t))
  BY <1>1
<1>3. Range(s \o t) \subseteq Range(s) \cup Range(t)
  <2>1. SUFFICES ASSUME NEW i \in 1..(Len(s) + Len(t))
                 PROVE  (s \o t)[i] \in Range(s) \cup Range(t)
    BY <1>2 DEF Range
  <2>2. CASE i <= Len(s)
    BY <1>1, <1>2, <2>2 DEF Range
  <2>3. CASE ~(i <= Len(s))
    <3>1. i - Len(s) \in 1..Len(t)
      BY <1>2, <2>3
    <3> QED BY <1>1, <1>2, <2>3, <3>1 DEF Range
  <2> QED BY <2>2, <2>3
<1>4. Range(s) \subseteq Range(s \o t)
  <2>1. SUFFICES ASSUME NEW i \in 1..Len(s) PROVE s[i] \in Range(s \o t)
    BY <1>2 DEF Range
  <2>2. i \in 1..(Len(s) + Len(t)) /\ (s \o t)[i] = s[i]
    BY <1>1, <1>2
  <2> QED BY <1>2, <2>2 DEF Range
<1>5. Range(t) \subseteq Range(s \o t)
  <2>1. SUFFICES ASSUME NEW i \in 1..Len(t) PROVE t[i] \in Range(s \o t)
    BY <1>2 DEF Range
  <2>2. /\ i + Len(s) \in 1..(Len(s) + Len(t))
        /\ ~(i + Len(s) <= Len(s))
        /\ (i + Len(s)) - Len(s) = i
    BY <1>2
  <2>3. (s \o t)[i + Len(s)] = t[i]
    BY <1>1, <2>2
  <2> QED BY <1>2, <2>2, <2>3 DEF Range
<1> QED BY <1>1, <1>3, <1>4, <1>5

\* A verdict that decides every pending request leaves none of them pending,
\* and reopens the claim exactly when it approves one.
LEMMA ResolveFacts ==
    ASSUME NEW c \in Claim, NEW r \in Nat, NEW d,
           DecidesExactly(d, Pending(c))
    PROVE  /\ ResolveReopenRequests(c, d, r) \in Claim
           /\ ResolveReopenRequests(c, d, r).status =
                 IF SomeApproved(d) THEN "OPEN" ELSE c.status
           /\ Requested(ResolveReopenRequests(c, d, r)) = Requested(c)
           /\ Resolved(ResolveReopenRequests(c, d, r)) =
                 Resolved(c) \cup Pending(c)
           /\ SomeApproved(d) =>
                 \E e \in EntriesOf(ResolveReopenRequests(c, d, r),
                                    {"REOPEN_APPROVED"}) :
                    e.request \in Pending(c)
<1> DEFINE added == [i \in 1..Len(d) |-> ResolutionEntry(d[i], r)]
           new == ResolveReopenRequests(c, d, r)
<1>1. /\ d \in Seq(Decision)
      /\ {d[i].request : i \in DOMAIN d} = Pending(c)
      /\ DOMAIN d = 1..Len(d)
      /\ Len(d) \in Nat
  BY DEF DecidesExactly
<1>2. \A i \in 1..Len(d) :
         /\ ResolutionEntry(d[i], r) \in Entry
         /\ ResolutionEntry(d[i], r).type \in
               {"REOPEN_APPROVED", "REOPEN_REJECTED"}
         /\ ResolutionEntry(d[i], r).request = d[i].request
  <2>1. TAKE i \in 1..Len(d)
  <2>2. d[i] \in Decision
    BY <1>1
  <2>3. d[i].request \in Request /\ d[i].approve \in BOOLEAN
    BY <2>2 DEF Decision
  <2>4. ResolutionEntry(d[i], r) \in
           [type : {"REOPEN_APPROVED", "REOPEN_REJECTED"},
            request : Request, round : Nat]
    BY <2>3 DEF ResolutionEntry
  <2>5. ResolutionEntry(d[i], r).request = d[i].request
    BY DEF ResolutionEntry
  <2>6. ResolutionEntry(d[i], r).type \in
           {"REOPEN_APPROVED", "REOPEN_REJECTED"}
    BY DEF ResolutionEntry
  <2> QED BY <2>4, <2>5, <2>6 DEF Entry
<1>3. added \in Seq(Entry) /\ DOMAIN added = 1..Len(d)
  BY <1>1, <1>2
<1>4. /\ c.entries \in Seq(Entry)
      /\ c.status \in {"ABSENT", "OPEN", "CLOSED"}
  BY DEF Claim
<1>5. new = [status |-> IF SomeApproved(d) THEN "OPEN" ELSE c.status,
             entries |-> c.entries \o added]
  BY DEF ResolveReopenRequests
<1>6. \A e \in Range(added) :
         /\ e.type \in {"REOPEN_APPROVED", "REOPEN_REJECTED"}
         /\ e.request \in Pending(c)
  BY <1>1, <1>2, <1>3 DEF Range
<1>7. \A q \in Pending(c) : \E e \in Range(added) : e.request = q
  BY <1>1, <1>2, <1>3 DEF Range
<1>12. ASSUME SomeApproved(d)
       PROVE  \E e \in Range(added) : e.type = "REOPEN_APPROVED"
  <2>1. PICK i \in 1..Len(d) : d[i].approve
    BY <1>1, <1>12 DEF SomeApproved
  <2>2. added[i].type = "REOPEN_APPROVED"
    BY <2>1 DEF ResolutionEntry
  <2> QED BY <1>3, <2>2 DEF Range
<1> HIDE DEF added, new
<1>8. /\ c.entries \o added \in Seq(Entry)
      /\ Range(c.entries \o added) = Range(c.entries) \cup Range(added)
  BY <1>3, <1>4, RangeOfConcat
<1>9. /\ new \in Claim
      /\ new.status = IF SomeApproved(d) THEN "OPEN" ELSE c.status
      /\ Range(new.entries) = Range(c.entries) \cup Range(added)
  BY <1>4, <1>5, <1>8 DEF Claim
<1>10. Requested(new) = Requested(c)
  BY <1>6, <1>9 DEF Requested, EntriesOf
<1>11. Resolved(new) = Resolved(c) \cup Pending(c)
  BY <1>6, <1>7, <1>9 DEF Resolved, EntriesOf
<1>13. SomeApproved(d) =>
          \E e \in EntriesOf(new, {"REOPEN_APPROVED"}) : e.request \in Pending(c)
  BY <1>6, <1>9, <1>12 DEF EntriesOf
<1> QED BY <1>9, <1>10, <1>11, <1>13 DEF new

-----------------------------------------------------------------------------
(* Type correctness. *)

\* What a valid reply says on a claim is a verdict.
LEMMA ValidVerdictsAreVerdicts ==
    ASSUME NEW k \in Keywords
    PROVE  ValidVerdicts(k) \subseteq Verdict
<1>1. \A d \in DecisionLists(k) : d \in Seq(Decision)
  BY DEF DecisionLists, DecidesExactly
<1> QED BY <1>1, NeedsAssumption DEF ValidVerdicts, Verdict

\* Applying an accepted verdict, or the fallback, to a claim gives a claim.
LEMMA AppliedVerdictIsClaim ==
    ASSUME TypeOK, NEW k \in offered
    PROVE  /\ Accepts(k) => ApplyVerdict(claims[k], verdicts[k]) \in Claim
           /\ ContinueClaim(claims[k], Agents, FALSE, round) \in Claim
<1>1. /\ claims[k] \in Claim
      /\ verdicts[k] \in Verdict
      /\ round \in Nat
  BY RoundsAssumption DEF TypeOK
<1>2. ContinueClaim(claims[k], Agents, FALSE, round) \in Claim
  BY <1>1, ContinueClaimFacts
<1>3. ASSUME Accepts(k), verdicts[k].kind = "REOPEN"
      PROVE  ApplyVerdict(claims[k], verdicts[k]) \in Claim
  <2>1. DecidesExactly(verdicts[k].decisions, Pending(claims[k]))
    BY <1>3 DEF Accepts
  <2> QED BY <1>1, <1>3, <2>1, ResolveFacts DEF ApplyVerdict
<1>4. ASSUME verdicts[k].kind = "CLOSE"
      PROVE  ApplyVerdict(claims[k], verdicts[k]) \in Claim
  BY <1>1, <1>4, CloseClaimFacts DEF ApplyVerdict
<1>5. ASSUME verdicts[k].kind = "CONTINUE"
      PROVE  ApplyVerdict(claims[k], verdicts[k]) \in Claim
  <2>1. /\ verdicts[k].needs \in SUBSET Agents
        /\ verdicts[k].allow \in BOOLEAN
    BY <1>1, <1>5 DEF Verdict
  <2>2. ContinueClaim(claims[k], verdicts[k].needs, verdicts[k].allow, round)
           \in Claim
    BY <1>1, <2>1, ContinueClaimFacts
  <2> QED BY <1>5, <2>2 DEF ApplyVerdict
<1> QED BY <1>2, <1>3, <1>4, <1>5 DEF Accepts

\* The result a run ends with is a result.
LEMMA FinishIsTyped ==
    ASSUME TypeOK, NEW b \in BOOLEAN, NEW D \in SUBSET Keywords, Finish(b, D)
    PROVE  result' \in Result /\ phase' \in Phases
BY RoundsAssumption DEF TypeOK, Finish, Result, Phases

\* Every variable keeps its type.
THEOREM TypeCorrect == Spec => []TypeOK
<1> USE AgentsAssumption, RoundsAssumption
<1>1. Init => TypeOK
  BY DEF Init, TypeOK, Phases, Claim, NoClaim, Verdict, NoVerdicts, NoVerdict,
         Result, NoResult, HostAttempts
<1>2. TypeOK /\ [Next]_vars => TypeOK'
  <2> SUFFICES ASSUME TypeOK, [Next]_vars PROVE TypeOK'
    OBVIOUS
  <2> USE DEF agentVars, batchVars, judgeVars
  <2>1. ASSUME AgentStep PROVE TypeOK'
    <3>1. CASE StartRounds
      BY <3>1 DEF StartRounds, TypeOK, Phases
    <3>2. ASSUME NEW a \in Agents, AgentAnswers(a) PROVE TypeOK'
      BY <3>2, OutputsAssumption DEF AgentAnswers, TypeOK
    <3>3. ASSUME NEW a \in Agents, AgentFails(a) PROVE TypeOK'
      BY <3>3 DEF AgentFails, TypeOK
    <3>4. CASE GatherOutputs
      BY <3>4 DEF GatherOutputs, TypeOK, Phases
    <3>5. CASE FirstRoundFails
      BY <3>5 DEF FirstRoundFails, FinishWithError, TypeOK, Phases, Result
    <3> QED BY <2>1, <3>1, <3>2, <3>3, <3>4, <3>5 DEF AgentStep
  <2>2. ASSUME MergeStep PROVE TypeOK'
    <3>1. PICK a \in Agents :
             MergeNewClaim(a) \/ MergeResponse(a) \/ MergeReopenRequest(a)
      BY <2>2 DEF MergeStep
    <3>2. /\ round \in Nat
          /\ claims \in [Keywords -> Claim]
          /\ outputs[a] \in Seq(Response)
      BY DEF TypeOK
    <3>3. ASSUME NEW type, NextResponse(a, type), claims' \in [Keywords -> Claim]
          PROVE  TypeOK'
      <4>1. Tail(outputs[a]) \in Seq(Response)
        BY <3>2, <3>3, HeadTailProperties DEF NextResponse
      <4> QED BY <3>3, <4>1 DEF NextResponse, TypeOK
    <3>4. CASE MergeNewClaim(a)
      <4>1. claims' \in [Keywords -> Claim]
        BY <3>2, <3>4, NewClaimFacts DEF MergeNewClaim
      <4> QED BY <3>3, <3>4, <4>1 DEF MergeNewClaim
    <3>5. CASE MergeResponse(a)
      <4>1. claims' \in [Keywords -> Claim]
        BY <3>2, <3>5, AddResponseFacts DEF MergeResponse
      <4> QED BY <3>3, <3>5, <4>1 DEF MergeResponse
    <3>6. CASE MergeReopenRequest(a)
      <4>1. Head(outputs[a]) \in Response
        BY <3>2, <3>6, HeadTailProperties DEF MergeReopenRequest, NextResponse
      <4>2. ASSUME NEW k \in Keywords, AcceptsRequest(k, a)
            PROVE  RequestFor(k, a) \in Request
        BY <3>2, <3>6, <4>1, <4>2
           DEF MergeReopenRequest, NextResponse, AcceptsRequest, RequestFor,
               Request, Response
      <4>3. claims' \in [Keywords -> Claim]
        BY <3>2, <3>6, <4>2, AddReopenRequestFacts DEF MergeReopenRequest
      <4> QED BY <3>3, <3>6, <4>3 DEF MergeReopenRequest
    <3> QED BY <3>1, <3>4, <3>5, <3>6
  <2>3. ASSUME JudgeStep PROVE TypeOK'
    <3>1. CASE SkipJudgment
      BY <3>1 DEF SkipJudgment, TypeOK, Phases
    <3>2. CASE StartJudgment
      BY <3>2 DEF StartJudgment, TypeOK, Phases, HostCandidates, NoVerdicts,
                  NoVerdict, Verdict
    <3>3. CASE OfferBatch
      BY <3>3 DEF OfferBatch, TypeOK, HostAttempts
    <3>4. CASE RejectReply
      BY <3>4 DEF RejectReply, TypeOK, HostAttempts
    <3>5. CASE AcceptReply
      <4>1. verdicts' \in [Keywords -> Verdict]
        <5>1. SealedVerdict \in Verdict
          BY DEF SealedVerdict, Verdict
        <5> QED BY <3>5, <5>1, ValidVerdictsAreVerdicts DEF AcceptReply, TypeOK, Cut
      <4> QED BY <3>5, <4>1 DEF AcceptReply, TypeOK, Cut
    <3>6. CASE DropReply
      BY <3>6 DEF DropReply, TypeOK, TruncatedReopens, Cut
    <3>7. CASE ApplyVerdicts
      <4>1. claims' \in [Keywords -> Claim]
        BY <3>7, AppliedVerdictIsClaim DEF ApplyVerdicts, Fallback, TypeOK
      <4> QED BY <3>7, <4>1 DEF ApplyVerdicts, TypeOK, Phases
    <3> QED BY <2>3, <3>1, <3>2, <3>3, <3>4, <3>5, <3>6, <3>7 DEF JudgeStep
  <2>4. ASSUME RoomStep PROVE TypeOK'
    <3>1. CASE NextRound
      BY <3>1 DEF NextRound, RoundsLeft, TypeOK, Phases
    <3>2. CASE StopAtLimit
      <4>1. OpenClaims(claims) \in SUBSET Keywords
        BY DEF OpenClaims
      <4> QED BY <3>2, <4>1, FinishIsTyped DEF StopAtLimit, TypeOK
    <3>3. CASE Converge
      <4>1. result' \in Result /\ phase' \in Phases
        BY <3>3, FinishIsTyped DEF Converge, TypeOK, Phases
      <4> QED BY <3>3, <4>1 DEF Converge, TypeOK
    <3>4. CASE Summarize
      <4>1. result' \in Result /\ phase' \in Phases
        BY <3>4, FinishIsTyped DEF Summarize
      <4> QED BY <3>4, <4>1 DEF Summarize, TypeOK
    <3> QED BY <2>4, <3>1, <3>2, <3>3, <3>4 DEF RoomStep
  <2>5. CASE RunFails
    BY <2>5 DEF RunFails, FinishWithError, TypeOK, Phases, Result
  <2>6. CASE UNCHANGED vars
    BY <2>6 DEF vars, TypeOK
  <2> QED BY <2>1, <2>2, <2>3, <2>4, <2>5, <2>6 DEF Next, Done
<1> QED BY <1>1, <1>2, PTL DEF Spec

-----------------------------------------------------------------------------
(* The ways a claim c can become d in one step.  Everything below follows  *)
(* from them.                                                              *)

SameHistory(c, d) == Requested(d) = Requested(c) /\ Resolved(d) = Resolved(c)

Unaffected(c, d) == d.status = c.status /\ SameHistory(c, d)

Proposed(c, d) ==
    /\ c.status = "ABSENT"
    /\ d.status = "OPEN"
    /\ SameHistory(c, d)
    /\ Requested(d) = {}

Settled(c, d) ==
    /\ c.status = "OPEN"
    /\ d.status = "CLOSED"
    /\ SameHistory(c, d)

Asked(c, d) ==
    /\ c.status = "CLOSED"
    /\ d.status = "CLOSED"
    /\ Resolved(d) = Resolved(c)
    /\ \E q \in Request \ Requested(c) : Requested(d) = Requested(c) \cup {q}

Heard(c, d) ==
    /\ c.status = "CLOSED"
    /\ d.status \in {"OPEN", "CLOSED"}
    /\ Pending(c) # {}
    /\ Requested(d) = Requested(c)
    /\ Resolved(d) = Resolved(c) \cup Pending(c)
    /\ d.status = "OPEN" =>
          \E e \in EntriesOf(d, {"REOPEN_APPROVED"}) : e.request \in Pending(c)

\* What the steps need to know of a state: no history before a claim exists,
\* and no decision without its request.
Standing ==
    \A k \in Keywords :
        /\ claims[k].status = "ABSENT" =>
              Requested(claims[k]) = {} /\ Resolved(claims[k]) = {}
        /\ Resolved(claims[k]) \subseteq Requested(claims[k])

\* How merging one response changes a claim.
LEMMA MergeEvolves ==
    ASSUME TypeOK, Standing, MergeStep, NEW k \in Keywords
    PROVE  \/ Unaffected(claims[k], claims'[k])
           \/ Proposed(claims[k], claims'[k])
           \/ Asked(claims[k], claims'[k])
<1>1. PICK a \in Agents :
         MergeNewClaim(a) \/ MergeResponse(a) \/ MergeReopenRequest(a)
  BY DEF MergeStep
<1>2. /\ round \in Nat
      /\ claims[k] \in Claim
      /\ outputs[a] \in Seq(Response)
  BY RoundsAssumption DEF TypeOK
<1>3. CASE claims'[k] = claims[k]
  BY <1>3 DEF Unaffected, SameHistory
<1>4. CASE MergeNewClaim(a) /\ claims'[k] # claims[k]
  <2>1. claims[k].status = "ABSENT" /\ claims'[k] = NewClaim(a, round)
    BY <1>4 DEF MergeNewClaim
  <2>2. /\ NewClaim(a, round).status = "OPEN"
        /\ Requested(NewClaim(a, round)) = {}
        /\ Resolved(NewClaim(a, round)) = {}
    BY <1>2, NewClaimFacts DEF IsOpen
  <2> QED BY <2>1, <2>2 DEF Proposed, SameHistory, Standing
<1>5. CASE MergeResponse(a) /\ claims'[k] # claims[k]
  <2>1. claims'[k] = AddResponse(claims[k], a, round)
    BY <1>5 DEF MergeResponse
  <2> QED BY <1>2, <2>1, AddResponseFacts DEF Unaffected, SameHistory
<1>6. CASE MergeReopenRequest(a) /\ claims'[k] # claims[k]
  <2>1. /\ AcceptsRequest(k, a)
        /\ claims'[k] = AddReopenRequest(claims[k], RequestFor(k, a))
    BY <1>6 DEF MergeReopenRequest
  <2>2. Head(outputs[a]) \in Response
    BY <1>2, <1>6, HeadTailProperties DEF MergeReopenRequest, NextResponse
  <2>3. RequestFor(k, a) \in Request
    BY <1>2, <1>6, <2>1, <2>2
       DEF MergeReopenRequest, NextResponse, AcceptsRequest, RequestFor,
           Request, Response
  <2>4. /\ claims[k].status = "CLOSED"
        /\ RequestFor(k, a) \notin Requested(claims[k])
    BY <2>1 DEF AcceptsRequest, IsClosed
  <2>5. /\ claims'[k].status = "CLOSED"
        /\ Resolved(claims'[k]) = Resolved(claims[k])
        /\ Requested(claims'[k]) = Requested(claims[k]) \cup {RequestFor(k, a)}
    BY <1>2, <2>1, <2>3, <2>4, AddReopenRequestFacts
  <2> QED BY <2>3, <2>4, <2>5 DEF Asked
<1> QED BY <1>1, <1>3, <1>4, <1>5, <1>6

\* How applying the verdicts changes a claim.
LEMMA ApplyEvolves ==
    ASSUME TypeOK, ApplyVerdicts, NEW k \in Keywords
    PROVE  \/ Unaffected(claims[k], claims'[k])
           \/ Settled(claims[k], claims'[k])
           \/ Heard(claims[k], claims'[k])
<1> DEFINE c == claims[k]
           d == claims'[k]
           v == verdicts[k]
<1>1. /\ round \in Nat
      /\ c \in Claim
      /\ v \in Verdict
  BY RoundsAssumption DEF TypeOK
<1>2. d = IF k \notin offered THEN c
          ELSE IF Accepts(k) THEN ApplyVerdict(c, v)
          ELSE ContinueClaim(c, Agents, FALSE, round)
  BY DEF ApplyVerdicts, Fallback
<1>3. CASE k \notin offered
  BY <1>2, <1>3 DEF Unaffected, SameHistory
<1>4. CASE k \in offered /\ ~Accepts(k)
  <2>1. d = ContinueClaim(c, Agents, FALSE, round)
    BY <1>2, <1>4
  <2>2. \A b \in BOOLEAN :
           /\ ContinueClaim(c, Agents, b, round).status = c.status
           /\ Requested(ContinueClaim(c, Agents, b, round)) = Requested(c)
           /\ Resolved(ContinueClaim(c, Agents, b, round)) = Resolved(c)
    BY <1>1, ContinueClaimFacts
  <2>3. /\ d.status = c.status
        /\ Requested(d) = Requested(c)
        /\ Resolved(d) = Resolved(c)
    BY <2>1, <2>2
  <2> QED BY <2>3 DEF Unaffected, SameHistory
<1>5. ASSUME k \in offered, Accepts(k), v.kind = "CONTINUE"
      PROVE  Unaffected(c, d)
  <2>1. d = ContinueClaim(c, v.needs, v.allow, round)
    BY <1>2, <1>5 DEF ApplyVerdict
  <2>2. v.needs \in SUBSET Agents /\ v.allow \in BOOLEAN
    BY <1>1, <1>5 DEF Verdict
  <2> QED BY <1>1, <2>1, <2>2, ContinueClaimFacts DEF Unaffected, SameHistory
<1>6. ASSUME k \in offered, Accepts(k), v.kind = "CLOSE"
      PROVE  Settled(c, d)
  <2>1. d = CloseClaim(c, round)
    BY <1>2, <1>6 DEF ApplyVerdict
  <2>2. c.status = "OPEN"
    BY <1>6 DEF Accepts, IsOpen
  <2> QED BY <1>1, <2>1, <2>2, CloseClaimFacts DEF Settled, SameHistory
<1>7. ASSUME k \in offered, Accepts(k), v.kind = "REOPEN"
      PROVE  Unaffected(c, d) \/ Heard(c, d)
  <2>1. d = ResolveReopenRequests(c, v.decisions, round)
    BY <1>2, <1>7 DEF ApplyVerdict
  <2>2. c.status = "CLOSED" /\ DecidesExactly(v.decisions, Pending(c))
    BY <1>7 DEF Accepts, IsClosed
  <2>3. /\ d.status = IF SomeApproved(v.decisions) THEN "OPEN" ELSE c.status
        /\ Requested(d) = Requested(c)
        /\ Resolved(d) = Resolved(c) \cup Pending(c)
        /\ SomeApproved(v.decisions) =>
              \E e \in EntriesOf(d, {"REOPEN_APPROVED"}) :
                 e.request \in Pending(c)
    BY <1>1, <2>1, <2>2, ResolveFacts
  <2>4. CASE Pending(c) = {}
    <3>1. ~SomeApproved(v.decisions)
      BY <2>2, <2>4 DEF DecidesExactly, SomeApproved
    <3> QED BY <2>3, <2>4, <3>1 DEF Unaffected, SameHistory
  <2>5. CASE Pending(c) # {}
    BY <2>2, <2>3, <2>5 DEF Heard
  <2> QED BY <2>4, <2>5
<1> QED BY <1>3, <1>4, <1>5, <1>6, <1>7 DEF Accepts

\* Every step changes every claim in one of the five ways, or not at all.
LEMMA StepEvolves ==
    ASSUME TypeOK, Standing, [Next]_vars, NEW k \in Keywords
    PROVE  \/ Unaffected(claims[k], claims'[k])
           \/ Proposed(claims[k], claims'[k])
           \/ Asked(claims[k], claims'[k])
           \/ Settled(claims[k], claims'[k])
           \/ Heard(claims[k], claims'[k])
<1>1. CASE MergeStep
  BY <1>1, MergeEvolves
<1>2. CASE ApplyVerdicts
  BY <1>2, ApplyEvolves
<1>3. CASE UNCHANGED claims
  BY <1>3 DEF Unaffected, SameHistory
<1>4. CASE AgentStep
  BY <1>3, <1>4 DEF AgentStep, StartRounds, AgentAnswers, AgentFails,
                    GatherOutputs, FirstRoundFails, FinishWithError
<1>5. CASE JudgeStep
  BY <1>2, <1>3, <1>5 DEF JudgeStep, SkipJudgment, StartJudgment, OfferBatch,
                          RejectReply, AcceptReply, DropReply
<1>6. CASE RoomStep
  BY <1>3, <1>6 DEF RoomStep, NextRound, StopAtLimit, Converge, Summarize
<1>7. CASE RunFails
  BY <1>3, <1>7 DEF RunFails, FinishWithError
<1>8. CASE UNCHANGED vars
  BY <1>3, <1>8 DEF vars
<1> QED BY <1>1, <1>4, <1>5, <1>6, <1>7, <1>8 DEF Next, Done

-----------------------------------------------------------------------------
(* Safety. *)

\* A claim has requests only once it is closed, so what is pending on an OPEN
\* claim can only come from a verdict that approved one request and left
\* another: none does.
Inv == TypeOK /\ Standing /\ OpenHasNoPending

\* No way of changing a claim breaks these facts about it.
LEMMA EvolvingKeepsStanding ==
    ASSUME NEW c, NEW d,
           c.status = "ABSENT" => Requested(c) = {} /\ Resolved(c) = {},
           Resolved(c) \subseteq Requested(c),
           c.status = "OPEN" => Pending(c) = {},
           \/ Unaffected(c, d) \/ Proposed(c, d) \/ Asked(c, d)
           \/ Settled(c, d) \/ Heard(c, d)
    PROVE  /\ d.status = "ABSENT" => Requested(d) = {} /\ Resolved(d) = {}
           /\ Resolved(d) \subseteq Requested(d)
           /\ d.status = "OPEN" => Pending(d) = {}
<1>1. CASE Unaffected(c, d)
  BY <1>1 DEF Unaffected, SameHistory, Pending
<1>2. CASE Proposed(c, d)
  BY <1>2 DEF Proposed, SameHistory, Pending
<1>3. CASE Asked(c, d)
  BY <1>3 DEF Asked
<1>4. CASE Settled(c, d)
  BY <1>4 DEF Settled, SameHistory
<1>5. CASE Heard(c, d)
  BY <1>5 DEF Heard, Pending
<1> QED BY <1>1, <1>2, <1>3, <1>4, <1>5

\* The inductive invariant.
LEMMA InvHolds == Spec => []Inv
<1>1. Init => Standing /\ OpenHasNoPending
  <2> SUFFICES ASSUME Init, NEW k \in Keywords
               PROVE  /\ claims[k].status = "ABSENT"
                      /\ Requested(claims[k]) = {}
                      /\ Resolved(claims[k]) = {}
    BY DEF Standing, OpenHasNoPending, IsOpen
  <2>1. claims[k].status = "ABSENT" /\ Range(claims[k].entries) = {}
    BY DEF Init, NoClaim, Range
  <2> QED BY <2>1 DEF Requested, Resolved, EntriesOf
<1>2. TypeOK /\ Standing /\ OpenHasNoPending /\ [Next]_vars
         => Standing' /\ OpenHasNoPending'
  <2> SUFFICES ASSUME TypeOK, Standing, OpenHasNoPending, [Next]_vars,
                      NEW k \in Keywords
               PROVE  /\ claims'[k].status = "ABSENT" =>
                            /\ Requested(claims'[k]) = {}
                            /\ Resolved(claims'[k]) = {}
                      /\ Resolved(claims'[k]) \subseteq Requested(claims'[k])
                      /\ claims'[k].status = "OPEN" => Pending(claims'[k]) = {}
    BY DEF Standing, OpenHasNoPending, IsOpen, Requested, Resolved, Pending,
           EntriesOf
  <2>1. /\ claims[k].status = "ABSENT" =>
              Requested(claims[k]) = {} /\ Resolved(claims[k]) = {}
        /\ Resolved(claims[k]) \subseteq Requested(claims[k])
        /\ claims[k].status = "OPEN" => Pending(claims[k]) = {}
    BY DEF Standing, OpenHasNoPending, IsOpen
  <2>2. \/ Unaffected(claims[k], claims'[k])
        \/ Proposed(claims[k], claims'[k])
        \/ Asked(claims[k], claims'[k])
        \/ Settled(claims[k], claims'[k])
        \/ Heard(claims[k], claims'[k])
    BY StepEvolves
  <2> QED BY <2>1, <2>2, EvolvingKeepsStanding
<1>3. Spec => []TypeOK
  BY TypeCorrect
<1> QED BY <1>1, <1>2, <1>3, PTL DEF Spec, Inv

\* An OPEN claim never has an undecided request.
THEOREM OpenClaimsSettled == Spec => []OpenHasNoPending
BY InvHolds, PTL DEF Inv

\* Only the approval of a request that was pending brings a claim back.
THEOREM ReopenNeedsApproval == Spec => ReopenOnlyByApproval
<1>1. Inv /\ [Next]_vars =>
         \A k \in Keywords :
            IsClosed(claims[k]) /\ ~IsClosed(claims'[k]) =>
               /\ IsOpen(claims'[k])
               /\ \E e \in EntriesOf(claims'[k], {"REOPEN_APPROVED"}) :
                     e.request \in Pending(claims[k])
  <2> SUFFICES ASSUME Inv, [Next]_vars, NEW k \in Keywords,
                      claims[k].status = "CLOSED",
                      claims'[k].status # "CLOSED"
               PROVE  /\ claims'[k].status = "OPEN"
                      /\ \E e \in EntriesOf(claims'[k], {"REOPEN_APPROVED"}) :
                            e.request \in Pending(claims[k])
    BY DEF IsClosed, IsOpen
  <2>1. \/ Unaffected(claims[k], claims'[k])
        \/ Proposed(claims[k], claims'[k])
        \/ Asked(claims[k], claims'[k])
        \/ Settled(claims[k], claims'[k])
        \/ Heard(claims[k], claims'[k])
    BY StepEvolves DEF Inv
  <2>2. Heard(claims[k], claims'[k])
    BY <2>1 DEF Unaffected, Proposed, Asked, Settled
  <2> QED BY <2>2 DEF Heard
<1> QED BY <1>1, InvHolds, PTL DEF Spec, ReopenOnlyByApproval
=============================================================================
