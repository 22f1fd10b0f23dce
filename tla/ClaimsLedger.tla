---------------------------- MODULE ClaimsLedger ----------------------------
(***************************************************************************)
(* The claims of one discussion, as ClaimsManager keeps them in memory and *)
(* writes them to claims.md (discuss_agent/claims.py).                     *)
(*                                                                         *)
(* A claim is a status and the sequence of its entries.  Nothing about a   *)
(* reopen request is stored apart from the entries: which requests exist,  *)
(* which are pending and what the Host last asked for are all recomputed   *)
(* from the history each time, as the code does.                           *)
(*                                                                         *)
(* The texts (claims, evidence, reasons, missing) are abstracted away; the *)
(* two closing verdicts are one status, since no code path tells them      *)
(* apart; a request's identity, a digest of claim, agent, round and        *)
(* payload, is the record of these four.                                   *)
(*                                                                         *)
(* An operator marked "Mutation" is the next definition with a bug that    *)
(* the code could have.  The specification does not use it.                *)
(***************************************************************************)
EXTENDS Integers, Sequences, Functions

CONSTANTS Keywords,  \* the claim keywords agents may use
          NumAgents, \* configured agents, known by their index in the config
          Payloads,  \* the well-formed reopen payloads (kind, fact, source, reason)
          Malformed  \* any payload _parse_reopen_payload refuses

ASSUME AgentsAssumption == NumAgents \in Nat \ {0}
ASSUME PayloadAssumption == Malformed \notin Payloads

Agents == 1..NumAgents

Request == [claim : Keywords, agent : Agents, round : Nat, payload : Payloads]

\* ClaimEntry, with the part of its content that code reads back.
Entry == [type : {"FROM", "RESPONSE"}, agent : Agents, round : Nat]
           \cup [type : {"REOPEN_REQUEST"}, request : Request, round : Nat]
           \cup [type : {"REOPEN_APPROVED", "REOPEN_REJECTED"},
                 request : Request, round : Nat]
           \cup [type : {"CONTINUE"}, needs : SUBSET Agents,
                 allow : BOOLEAN, round : Nat]
           \cup [type : {"CLOSED"}, round : Nat]

Claim == [status : {"ABSENT", "OPEN", "CLOSED"}, entries : Seq(Entry)]

\* A keyword the dict does not hold.
NoClaim == [status |-> "ABSENT", entries |-> << >>]

HostTypes == {"CONTINUE", "CLOSED", "REOPEN_APPROVED", "REOPEN_REJECTED"}

-----------------------------------------------------------------------------
(* What the history says. *)

EntriesOf(c, types) == {e \in Range(c.entries) : e.type \in types}

\* get_reopen_requests, restricted to one claim.
Requested(c) == {e.request : e \in EntriesOf(c, {"REOPEN_REQUEST"})}

\* _resolved_reopen_ids
Resolved(c) ==
    {e.request : e \in EntriesOf(c, {"REOPEN_APPROVED", "REOPEN_REJECTED"})}

\* get_pending_reopen_requests, restricted to one claim.
Pending(c) == Requested(c) \ Resolved(c)

IsOpen(c) == c.status = "OPEN"
IsClosed(c) == c.status = "CLOSED"

\* get_open_claims and get_host_candidates
OpenClaims(claims) == {k \in Keywords : IsOpen(claims[k])}
\* Mutation: an OPEN claim the Host left with nobody is no candidate.
HostCandidates_Routed(claims) ==
    {k \in Keywords :
        \/ /\ IsOpen(claims[k])
           /\ ~\E e \in Range(claims[k].entries) :
                 e.type = "CONTINUE" /\ e.needs = {}
        \/ Pending(claims[k]) # {}}
HostCandidates(claims) ==
    {k \in Keywords : \/ IsOpen(claims[k])
                      \/ Pending(claims[k]) # {}}

\* The entry _host_routing starts from: the last one written by the Host.
IsLatestHost(c, i) ==
    /\ i \in DOMAIN c.entries
    /\ c.entries[i].type \in HostTypes
    /\ \A j \in DOMAIN c.entries : j > i => c.entries[j].type \notin HostTypes

\* The Host's latest word on the claim was a CONTINUE that satisfies P.
LatestContinue(c, P(_)) ==
    \E i \in DOMAIN c.entries :
        /\ IsLatestHost(c, i)
        /\ c.entries[i].type = "CONTINUE"
        /\ P(c.entries[i])

-----------------------------------------------------------------------------
(* Updates of one claim. *)

AddEntry(c, e) == [c EXCEPT !.entries = Append(@, e)]

\* The NEW_CLAIM branch of merge_round.
NewClaim(agent, round) ==
    [status  |-> "OPEN",
     entries |-> << [type |-> "FROM", agent |-> agent, round |-> round] >>]

\* The ordinary response branch: REBUTTAL, ACCEPT, PARTIAL_ACCEPT, REVISE.
AddResponse(c, agent, round) ==
    AddEntry(c, [type |-> "RESPONSE", agent |-> agent, round |-> round])

\* add_reopen_request: the status stays as it is.
AddReopenRequest(c, request) ==
    AddEntry(c, [type |-> "REOPEN_REQUEST", request |-> request,
                 round |-> request.round])

CloseClaim(c, round) ==
    [AddEntry(c, [type |-> "CLOSED", round |-> round])
        EXCEPT !.status = "CLOSED"]

\* Mutation: no early return.
ContinueClaim_Any(c, needs, allow, round) ==
    AddEntry(c, [type |-> "CONTINUE", needs |-> needs,
                 allow |-> allow, round |-> round])

\* continue_claim returns early on a claim that is not OPEN.
ContinueClaim(c, needs, allow, round) ==
    IF IsOpen(c)
    THEN AddEntry(c, [type |-> "CONTINUE", needs |-> needs,
                      allow |-> allow, round |-> round])
    ELSE c

\* A Host decision on one request; `decisions' is the list in the verdict.
Decision == [request : Request, approve : BOOLEAN]

ResolutionEntry(d, round) ==
    [type    |-> IF d.approve THEN "REOPEN_APPROVED" ELSE "REOPEN_REJECTED",
     request |-> d.request,
     round   |-> round]

\* Mutation: any decision counts.
SomeApproved_Decided(decisions) == decisions # << >>

SomeApproved(decisions) == \E i \in DOMAIN decisions : decisions[i].approve

\* Mutation: the last decision alone sets the status.
ResolveReopenRequests_Last(c, decisions, round) ==
    [status  |-> IF /\ decisions # << >>
                    /\ decisions[Len(decisions)].approve
                 THEN "OPEN" ELSE c.status,
     entries |-> c.entries \o
                   [i \in 1..Len(decisions) |->
                        ResolutionEntry(decisions[i], round)]]

\* resolve_reopen_request, once for each decision of the list in its order.
ResolveReopenRequests(c, decisions, round) ==
    [status  |-> IF SomeApproved(decisions) THEN "OPEN" ELSE c.status,
     entries |-> c.entries \o
                   [i \in 1..Len(decisions) |->
                        ResolutionEntry(decisions[i], round)]]

\* Mutation: only requests that were not expected are refused.
DecidesExactly_Expected(decisions, expected) ==
    /\ decisions \in Seq(Decision)
    /\ {decisions[i].request : i \in DOMAIN decisions} \subseteq expected

\* _reopen_schema_rejections finds nothing to refuse: every expected request
\* is decided, none other is, and none twice.
DecidesExactly(decisions, expected) ==
    /\ decisions \in Seq(Decision)
    /\ {decisions[i].request : i \in DOMAIN decisions} = expected
    /\ \A i, j \in DOMAIN decisions :
          decisions[i].request = decisions[j].request => i = j
=============================================================================
