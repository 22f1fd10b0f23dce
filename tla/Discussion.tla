----------------------------- MODULE Discussion -----------------------------
(***************************************************************************)
(* One run of DiscussionEngine (discuss_agent/engine.py): rounds in which  *)
(* the agents answer concurrently, their outputs are merged into the       *)
(* claims, the Host judges every candidate claim in batches, its verdicts  *)
(* are applied, and the engine decides whether the room has converged.     *)
(*                                                                         *)
(* Agents may fail, the Host may fail or break its protocol (each batch is *)
(* tried HostAttempts times), a claim may be too large to show in full or  *)
(* impossible to show at all, and an exception outside the guarded calls   *)
(* ends the run.                                                           *)
(*                                                                         *)
(* A variable keeps its value until the code assigns it again.  That       *)
(* matters for offered, accepted, rejected and adjudication: a round with  *)
(* no candidates decides convergence on what an earlier round left there.  *)
(*                                                                         *)
(* An operator marked "Mutation" is the next definition with a bug that    *)
(* the code could have.  The specification does not use it.                *)
(***************************************************************************)
EXTENDS ClaimsLedger, FiniteSets

CONSTANTS MaxRounds,   \* discussion.max_rounds
          BatchClaims, \* most claims in one Host batch
          SkipSummary, \* host.skip_summary
          Outputs,     \* the parsed outputs an agent may give in a round
          Needs        \* the sets of agents a CONTINUE verdict may name

Response ==
    [type : {"NEW_CLAIM"}, targets : {{}} \cup {{k} : k \in Keywords}]
      \cup [type : {"RESPONSE"}, targets : SUBSET Keywords]
      \cup [type : {"REOPEN_REQUEST"}, targets : SUBSET Keywords,
            payload : Payloads \cup {Malformed}]

ASSUME RoundsAssumption == MaxRounds \in Nat \ {0}
ASSUME OutputsAssumption == Outputs \subseteq Seq(Response)
ASSUME NeedsAssumption == Needs \subseteq SUBSET Agents
ASSUME SummaryAssumption == SkipSummary \in BOOLEAN

HostAttempts == 2

VARIABLES
    phase,        \* where run() is
    round,        \* round_num
    claims,       \* ClaimsManager.claims, as a total function
    reply,        \* what _call_agent has returned to each agent's task
    outputs,      \* the responses of each agent that are not merged yet
    offered,      \* offered_keywords
    unbatched,    \* candidates in batches the Host has not been asked about
    batch,        \* the batch the Host is being asked about
    attempt,      \* its attempt
    truncated,    \* references marked MUST_CONTINUE in the batches so far
    verdicts,     \* verdicts of the accepted batches, per claim
    accepted,     \* claims of accepted_verdicts
    rejected,     \* claims of rejected_verdicts
    blockers,     \* _host_safety_blockers
    adjudication, \* status of _host_room_adjudication, or "NONE"
    result        \* DiscussionResult, once there is one

agentVars == <<reply, outputs>>
batchVars == <<unbatched, batch, attempt, truncated>>
judgeVars == <<offered, batchVars, verdicts, accepted, rejected,
               blockers, adjudication>>
vars == <<phase, round, claims, agentVars, judgeVars, result>>

Verdict ==
    [kind : {"NONE", "CLOSE"}]
      \cup [kind : {"CONTINUE"}, needs : SUBSET Agents, allow : BOOLEAN]
      \cup [kind : {"REOPEN"}, decisions : Seq(Decision)]

NoVerdict == [kind |-> "NONE"]
NoVerdicts == [k \in Keywords |-> NoVerdict]

Result ==
    [converged : BOOLEAN, rounds : 0..MaxRounds,
     disputes : SUBSET Keywords, error : BOOLEAN]

NoResult == [converged |-> FALSE, rounds |-> 0, disputes |-> {},
             error |-> FALSE]

Phases == {"start", "agents", "merge", "judge", "room", "summary", "done"}

TypeOK ==
    /\ phase \in Phases
    /\ round \in 1..MaxRounds
    /\ claims \in [Keywords -> Claim]
    /\ reply \in [Agents -> {"waiting", "text", "none"}]
    /\ outputs \in [Agents -> Seq(Response)]
    /\ offered \subseteq Keywords
    /\ unbatched \subseteq Keywords
    /\ batch \subseteq Keywords
    /\ attempt \in 1..HostAttempts
    /\ truncated \subseteq Keywords
    /\ verdicts \in [Keywords -> Verdict]
    /\ accepted \subseteq Keywords
    /\ rejected \subseteq Keywords
    /\ blockers \subseteq Keywords
    /\ adjudication \in {"NONE", "CONVERGED", "NOT_CONVERGED"}
    /\ result \in Result

Init ==
    /\ phase = "start"
    /\ round = 1
    /\ claims = [k \in Keywords |-> NoClaim]
    /\ reply = [a \in Agents |-> "waiting"]
    /\ outputs = [a \in Agents |-> << >>]
    /\ offered = {}
    /\ unbatched = {}
    /\ batch = {}
    /\ attempt = 1
    /\ truncated = {}
    /\ verdicts = NoVerdicts
    /\ accepted = {}
    /\ rejected = {}
    /\ blockers = {}
    /\ adjudication = "NONE"
    /\ result = NoResult

-----------------------------------------------------------------------------
(* The run ends. *)

Finish(converged, disputes) ==
    /\ phase' = "done"
    /\ result' = [converged |-> converged, rounds |-> round,
                  disputes |-> disputes, error |-> FALSE]

\* The handler of an exception that reaches run().
FinishWithError ==
    /\ phase' = "done"
    /\ result' = [converged |-> FALSE, rounds |-> 0, disputes |-> {},
                  error |-> TRUE]
    /\ UNCHANGED <<round, claims, agentVars, judgeVars>>

-----------------------------------------------------------------------------
(* A round of agent calls: _round_1, _round_n. *)

\* Tools, conversations and the context are ready.
StartRounds ==
    /\ phase = "start"
    /\ phase' = "agents"
    /\ UNCHANGED <<round, claims, agentVars, judgeVars, result>>

\* Agent a's call returns a text, or None when both attempts failed.
AgentAnswers(a) ==
    /\ phase = "agents"
    /\ reply[a] = "waiting"
    /\ reply' = [reply EXCEPT ![a] = "text"]
    /\ \E output \in Outputs : outputs' = [outputs EXCEPT ![a] = output]
    /\ UNCHANGED <<phase, round, claims, judgeVars, result>>

AgentFails(a) ==
    /\ phase = "agents"
    /\ reply[a] = "waiting"
    /\ reply' = [reply EXCEPT ![a] = "none"]
    /\ UNCHANGED <<phase, round, claims, outputs, judgeVars, result>>

AllReplied == \A a \in Agents : reply[a] # "waiting"
NobodyAnswered == \A a \in Agents : reply[a] = "none"

\* asyncio.gather returns.  A later round goes on even with no output.
GatherOutputs ==
    /\ phase = "agents"
    /\ AllReplied
    /\ round > 1 \/ ~NobodyAnswered
    /\ phase' = "merge"
    /\ UNCHANGED <<round, claims, agentVars, judgeVars, result>>

\* "All agents failed in Round 1"
FirstRoundFails ==
    /\ phase = "agents"
    /\ round = 1
    /\ NobodyAnswered
    /\ FinishWithError

-----------------------------------------------------------------------------
(* merge_round: the outputs in config order, the responses of each in      *)
(* theirs.  No other code runs between two of these steps.                 *)

MergeDone == \A a \in Agents : outputs[a] = << >>

\* The next response to merge, of type `type', is agent a's.
NextResponse(a, type) ==
    /\ phase = "merge"
    /\ \A b \in 1..(a - 1) : outputs[b] = << >>
    /\ outputs[a] # << >>
    /\ Head(outputs[a]).type = type
    /\ outputs' = [outputs EXCEPT ![a] = Tail(@)]
    /\ UNCHANGED <<phase, round, reply, judgeVars, result>>

\* A keyword that is taken is only recorded as unmatched.
MergeNewClaim(a) ==
    /\ NextResponse(a, "NEW_CLAIM")
    /\ claims' = [k \in Keywords |->
                    IF /\ k \in Head(outputs[a]).targets
                       /\ claims[k].status = "ABSENT"
                    THEN NewClaim(a, round)
                    ELSE claims[k]]

\* REBUTTAL, ACCEPT, PARTIAL_ACCEPT and REVISE reach OPEN claims only.
MergeResponse(a) ==
    /\ NextResponse(a, "RESPONSE")
    /\ claims' = [k \in Keywords |->
                    IF k \in Head(outputs[a]).targets /\ IsOpen(claims[k])
                    THEN AddResponse(claims[k], a, round)
                    ELSE claims[k]]

\* The request agent a's next response makes for claim k.
RequestFor(k, a) ==
    [claim |-> k, agent |-> a, round |-> round,
     payload |-> Head(outputs[a]).payload]

\* Mutation: a request that is persisted already is taken again.
AcceptsRequest_Twice(k, a) ==
    /\ Head(outputs[a]).payload # Malformed
    /\ k \in Head(outputs[a]).targets
    /\ IsClosed(claims[k])

\* Mutation: a request on a claim of any status is taken.
AcceptsRequest_AnyStatus(k, a) ==
    /\ Head(outputs[a]).payload # Malformed
    /\ k \in Head(outputs[a]).targets
    /\ RequestFor(k, a) \notin Requested(claims[k])

\* A well-formed request on a CLOSED claim, unless it is persisted already.
AcceptsRequest(k, a) ==
    /\ Head(outputs[a]).payload # Malformed
    /\ k \in Head(outputs[a]).targets
    /\ IsClosed(claims[k])
    /\ RequestFor(k, a) \notin Requested(claims[k])

MergeReopenRequest(a) ==
    /\ NextResponse(a, "REOPEN_REQUEST")
    /\ claims' = [k \in Keywords |->
                    IF AcceptsRequest(k, a)
                    THEN AddReopenRequest(claims[k], RequestFor(k, a))
                    ELSE claims[k]]

-----------------------------------------------------------------------------
(* _host_judge: the candidates in batches, each tried HostAttempts times.  *)

\* No candidate: the Host is not asked and nothing it left is reset.
SkipJudgment ==
    /\ phase = "merge"
    /\ MergeDone
    /\ HostCandidates(claims) = {}
    /\ phase' = "room"
    /\ UNCHANGED <<round, claims, agentVars, judgeVars, result>>

\* A candidate whose rendered block would not parse back to it alone is left
\* out of every batch: only the others are `rendered'.
StartJudgment ==
    /\ phase = "merge"
    /\ MergeDone
    /\ HostCandidates(claims) # {}
    /\ phase' = "judge"
    /\ offered' = HostCandidates(claims)
    /\ \E rendered \in SUBSET HostCandidates(claims) : unbatched' = rendered
    /\ batch' = {}
    /\ truncated' = {}
    /\ verdicts' = NoVerdicts
    /\ blockers' = {}
    /\ adjudication' = "NONE"
    /\ UNCHANGED <<round, claims, agentVars, attempt, accepted, rejected,
                   result>>

\* The next batch, some of its claims too large to show in full.
OfferBatch ==
    /\ phase = "judge"
    /\ batch = {}
    /\ \E claimSet \in SUBSET unbatched \ {{}} :
          /\ Cardinality(claimSet) <= BatchClaims
          /\ batch' = claimSet
          /\ unbatched' = unbatched \ claimSet
          /\ \E cut \in SUBSET claimSet : truncated' = truncated \cup cut
    /\ attempt' = 1
    /\ UNCHANGED <<phase, round, claims, agentVars, offered, verdicts,
                   accepted, rejected, blockers, adjudication, result>>

\* The call fails, or its text is no JSON, has the wrong shape, does not name
\* every claim of the batch exactly once, or has an item that does not follow
\* the schema of its claim.
RejectReply ==
    /\ phase = "judge"
    /\ batch # {}
    /\ IF attempt < HostAttempts
       THEN attempt' = attempt + 1 /\ UNCHANGED batch
       ELSE batch' = {} /\ UNCHANGED attempt
    /\ UNCHANGED <<phase, round, claims, agentVars, offered, unbatched,
                   truncated, verdicts, accepted, rejected, blockers,
                   adjudication, result>>

HasPending(k) == Pending(claims[k]) # {}

\* The decision lists that name every pending request of claim k once.
DecisionLists(k) ==
    LET pending == Pending(claims[k])
    IN {d \in [1..Cardinality(pending) ->
                  [request : pending, approve : BOOLEAN]] :
           DecidesExactly(d, pending)}

\* The items _host_judge lets through for claim k.
ValidVerdicts(k) ==
    IF HasPending(k)
    THEN [kind : {"REOPEN"}, decisions : DecisionLists(k)]
    ELSE [kind : {"CLOSE"}]
           \cup [kind : {"CONTINUE"}, needs : Needs, allow : BOOLEAN]

\* What a verdict on a truncated claim is replaced with.
SealedVerdict == [kind |-> "CONTINUE", needs |-> Agents, allow |-> FALSE]

\* Mutation: the markers of the batch are overlooked.
Cut_None == {}

\* The claims of the batch marked MUST_CONTINUE.
Cut == batch \cap truncated

\* The reopen requests the Host was shown without all their context.
TruncatedReopens == {k \in Cut : HasPending(k)}

\* A valid reply.  Only the reply to the last batch may carry a room
\* adjudication ("NONE": the legacy array).
AcceptReply ==
    /\ phase = "judge"
    /\ batch # {}
    /\ TruncatedReopens = {}
    /\ \E chosen \in [batch \ Cut ->
                        UNION {ValidVerdicts(k) : k \in batch \ Cut}] :
          /\ \A k \in batch \ Cut : chosen[k] \in ValidVerdicts(k)
          /\ verdicts' = [k \in Keywords |->
                            IF k \in Cut THEN SealedVerdict
                            ELSE IF k \in batch THEN chosen[k]
                            ELSE verdicts[k]]
    /\ blockers' = blockers \cup Cut
    /\ IF unbatched = {}
       THEN adjudication' \in {"NONE", "CONVERGED", "NOT_CONVERGED"}
       ELSE UNCHANGED adjudication
    /\ batch' = {}
    /\ UNCHANGED <<phase, round, claims, agentVars, offered, unbatched,
                   attempt, truncated, accepted, rejected, result>>

\* A valid reply on a batch with a truncated reopen request is dropped whole,
\* the room adjudication too, and not asked for again.  The truncated claims
\* that came before that item in the reply are blockers already.
DropReply ==
    /\ phase = "judge"
    /\ \E k \in TruncatedReopens :
          \E before \in SUBSET (Cut \ TruncatedReopens) :
             blockers' = blockers \cup before \cup {k}
    /\ batch' = {}
    /\ UNCHANGED <<phase, round, claims, agentVars, offered, unbatched,
                   attempt, truncated, verdicts, accepted, rejected,
                   adjudication, result>>

-----------------------------------------------------------------------------
(* _apply_host_verdicts, then the room decision of run(). *)

\* The verdict on claim k is neither refused nor missing.
Accepts(k) ==
    LET v == verdicts[k]
    IN \/ /\ v.kind = "REOPEN"
          /\ IsClosed(claims[k])
          /\ DecidesExactly(v.decisions, Pending(claims[k]))
       \/ /\ v.kind \in {"CLOSE", "CONTINUE"}
          /\ IsOpen(claims[k])

\* Mutation: a reopened claim is continued at once.
ApplyVerdict_Continued(c, v) ==
    CASE v.kind = "REOPEN" ->
            ContinueClaim(ResolveReopenRequests(c, v.decisions, round),
                          Agents, FALSE, round)
      [] v.kind = "CLOSE" -> CloseClaim(c, round)
      [] v.kind = "CONTINUE" -> ContinueClaim(c, v.needs, v.allow, round)

ApplyVerdict(c, v) ==
    CASE v.kind = "REOPEN" -> ResolveReopenRequests(c, v.decisions, round)
      [] v.kind = "CLOSE" -> CloseClaim(c, round)
      [] v.kind = "CONTINUE" -> ContinueClaim(c, v.needs, v.allow, round)

Approves(v) == v.kind = "REOPEN" /\ SomeApproved(v.decisions)

\* Mutation: a claim without an accepted verdict is left alone.
Fallback_None(c) == c

\* A claim without an accepted verdict stays OPEN and goes to all agents.
Fallback(c) == ContinueClaim(c, Agents, FALSE, round)

ApplyVerdicts ==
    /\ phase = "judge"
    /\ batch = {}
    /\ unbatched = {}
    /\ phase' = "room"
    /\ accepted' = {k \in offered : Accepts(k)}
    /\ rejected' = {k \in offered : ~Accepts(k)}
    /\ claims' = [k \in Keywords |->
                    IF k \notin offered THEN claims[k]
                    ELSE IF Accepts(k) THEN ApplyVerdict(claims[k], verdicts[k])
                    ELSE Fallback(claims[k])]
    /\ blockers' = blockers \cup
                     {k \in offered : Accepts(k) /\ Approves(verdicts[k])}
    /\ UNCHANGED <<round, agentVars, offered, batchVars, verdicts,
                   adjudication, result>>

\* Mutation: what is routed to nobody does not hold the room up.
Unbounded_Routed(v) == v.kind = "CONTINUE" /\ v.needs # {}

\* _room_converged
Unbounded(v) == v.kind = "CONTINUE" /\ ~v.allow

RoomConverged ==
    \/ /\ adjudication = "NONE"
       /\ \E k \in Keywords : claims[k].status # "ABSENT"
       /\ OpenClaims(claims) = {}
    \/ /\ adjudication = "CONVERGED"
       /\ \A k \in accepted : ~Unbounded(verdicts[k])
       /\ \A k \in Keywords : ~HasPending(k)
       /\ rejected = {}
       /\ accepted = offered
       /\ blockers = {}

\* Mutation: one round too many.
RoundsLeft_OneMore == round <= MaxRounds

RoundsLeft == round < MaxRounds

NextRound ==
    /\ phase = "room"
    /\ ~RoomConverged
    /\ RoundsLeft
    /\ phase' = "agents"
    /\ round' = round + 1
    /\ reply' = [a \in Agents |-> "waiting"]
    /\ outputs' = [a \in Agents |-> << >>]
    /\ UNCHANGED <<claims, judgeVars, result>>

StopAtLimit ==
    /\ phase = "room"
    /\ ~RoomConverged
    /\ ~RoundsLeft
    /\ Finish(FALSE, OpenClaims(claims))
    /\ UNCHANGED <<round, claims, agentVars, judgeVars>>

Converge ==
    /\ phase = "room"
    /\ RoomConverged
    /\ IF SkipSummary
       THEN Finish(TRUE, {})
       ELSE phase' = "summary" /\ UNCHANGED result
    /\ UNCHANGED <<round, claims, agentVars, judgeVars>>

\* _host_summarize; the Host is asked once.
Summarize ==
    /\ phase = "summary"
    /\ Finish(TRUE, {})
    /\ UNCHANGED <<round, claims, agentVars, judgeVars>>

\* An exception: in the preparation, in a save of claims.md or of a round
\* file, or in the summary call.
RunFails ==
    /\ \/ phase \in {"start", "room", "summary"}
       \/ phase = "merge" /\ MergeDone
    /\ FinishWithError

-----------------------------------------------------------------------------
AgentStep ==
    \/ StartRounds
    \/ \E a \in Agents : AgentAnswers(a) \/ AgentFails(a)
    \/ GatherOutputs
    \/ FirstRoundFails

MergeStep ==
    \E a \in Agents :
       MergeNewClaim(a) \/ MergeResponse(a) \/ MergeReopenRequest(a)

JudgeStep ==
    \/ SkipJudgment \/ StartJudgment
    \/ OfferBatch \/ RejectReply \/ AcceptReply \/ DropReply
    \/ ApplyVerdicts

RoomStep == NextRound \/ StopAtLimit \/ Converge \/ Summarize

\* The run has returned.
Done == phase = "done" /\ UNCHANGED vars

Next == AgentStep \/ MergeStep \/ JudgeStep \/ RoomStep \/ RunFails \/ Done

\* A step that can run does: every model call has a timeout, and the tool
\* calls of an agent are assumed to return.
Spec == Init /\ [][Next]_vars /\ WF_vars(Next)

-----------------------------------------------------------------------------
(* Properties. *)

\* A claim that is OPEN has no reopen request left undecided.  Otherwise both
\* kinds of verdict would be refused for it and it could never be settled
\* again (_apply_host_verdicts).
OpenHasNoPending ==
    \A k \in Keywords : IsOpen(claims[k]) => Pending(claims[k]) = {}

\* README: "The runtime persists and deduplicates the request".  A request is
\* in the history once, is decided at most once, and only after it was made.
ReopenExactlyOnce ==
    \A k \in Keywords :
        LET E == claims[k].entries
            Requests == {i \in DOMAIN E : E[i].type = "REOPEN_REQUEST"}
            Decisions == {i \in DOMAIN E :
                            E[i].type \in {"REOPEN_APPROVED", "REOPEN_REJECTED"}}
        IN /\ \A i, j \in Requests : E[i].request = E[j].request => i = j
           /\ \A i, j \in Decisions : E[i].request = E[j].request => i = j
           /\ \A i \in Decisions :
                 \E j \in Requests : j < i /\ E[j].request = E[i].request

\* A CLOSED claim comes back only by a Host approval of a request that was
\* pending, and then it is OPEN.
ReopenOnlyByApproval ==
    [][\A k \in Keywords :
          IsClosed(claims[k]) /\ ~IsClosed(claims'[k]) =>
             /\ IsOpen(claims'[k])
             /\ \E e \in EntriesOf(claims'[k], {"REOPEN_APPROVED"}) :
                   e.request \in Pending(claims[k])]_vars

\* README: "Participants cannot modify a closed claim".  After a closing
\* entry the history holds nothing but requests and decisions on them, until
\* one of these decisions is an approval.
ClosedIsSilent ==
    \A k \in Keywords :
        LET E == claims[k].entries
        IN \A i, j \in DOMAIN E :
              /\ i < j
              /\ E[i].type = "CLOSED"
              /\ E[j].type \in {"FROM", "RESPONSE", "CONTINUE", "CLOSED"}
              => \E m \in (i + 1)..(j - 1) : E[m].type = "REOPEN_APPROVED"

\* The status in a claim's header is the one its entries tell: CLOSED exactly
\* when a closing entry has no approval after it.
StatusFollowsHistory ==
    \A k \in Keywords :
        LET E == claims[k].entries
        IN IsClosed(claims[k]) <=>
              \E i \in DOMAIN E :
                 /\ E[i].type = "CLOSED"
                 /\ \A j \in DOMAIN E : j > i => E[j].type # "REOPEN_APPROVED"

\* In one round the Host rules once on a claim; a round that reopens a claim
\* does not also close or continue it.
OneVerdictPerRound ==
    \A k \in Keywords :
        LET E == claims[k].entries
        IN \A i, j \in DOMAIN E :
              /\ i # j
              /\ E[i].round = E[j].round
              /\ E[i].type \in {"CONTINUE", "CLOSED"}
              => E[j].type \notin HostTypes

\* Every claim that is OPEN when a round of agents begins has had the Host's
\* attention in the round before, also when the Host failed, left the claim
\* out or was never shown it: what routes the agents is never older.
OpenClaimsAreRouted ==
    phase = "agents" /\ round > 1 =>
        \A k \in OpenClaims(claims) :
            \E i \in DOMAIN claims[k].entries :
                /\ IsLatestHost(claims[k], i)
                /\ claims[k].entries[i].round = round - 1
                /\ claims[k].entries[i].type # "CLOSED"

\* A converged room has claims, and every one left OPEN was continued in that
\* very round by a verdict that allows progress without the missing
\* information: never one that was truncated, refused, missing, or reopened.
ConvergedIsSealed ==
    result.converged =>
        /\ \E k \in Keywords : claims[k].status # "ABSENT"
        /\ \A k \in OpenClaims(claims) :
              LatestContinue(claims[k],
                             LAMBDA e : e.allow /\ e.round = result.rounds)

\* A verdict on a claim the Host was shown in part changes no status, neither
\* by closing it nor by reopening it.
TruncatedKeepsStatus ==
    [][\A k \in truncated : claims'[k].status = claims[k].status]_vars

\* A round without candidates never decides on a CONVERGED left over from an
\* earlier round.
NoStaleConvergence ==
    phase = "merge" /\ MergeDone /\ HostCandidates(claims) = {} =>
        adjudication # "CONVERGED"

Outcome ==
    CASE phase # "done" -> "running"
      [] phase = "done" /\ result.error -> "error"
      [] phase = "done" /\ ~result.error /\ result.converged -> "converged"
      [] phase = "done" /\ ~result.error /\ ~result.converged -> "limit"

Room == INSTANCE ClaimRoom
            WITH status  <- [k \in Keywords |-> claims[k].status],
                 pending <- [k \in Keywords |-> Pending(claims[k])],
                 decided <- [k \in Keywords |-> Resolved(claims[k])],
                 outcome <- Outcome

\* The run keeps the promise of ClaimRoom: its claims live through the
\* lifecycle stated there, and it returns.
ImplementsRoom == Room!RoomSpec

\* README: "On the next Host judgment, every pending request receives an
\* APPROVE or REJECT decision", so a run that converges leaves none pending.
ConvergedLeavesNonePending ==
    result.converged => \A k \in Keywords : ~HasPending(k)

\* spec/021: "As soon as the Host closes all claims, the run returns
\* converged=True", so no agent is asked again about a room of closed claims.
AllClosedConverges ==
    phase = "agents" /\ round > 1 =>
        \/ OpenClaims(claims) # {}
        \/ \A k \in Keywords : claims[k].status = "ABSENT"
=============================================================================
