----------------------------- MODULE ClaimText ------------------------------
(***************************************************************************)
(* One round of the claims as texts: the agents are shown references and   *)
(* answer under them, new claims come in meanwhile, and the Host is shown  *)
(* the candidates in batches, under references of its own; then the agents *)
(* are shown what is OPEN.                                                 *)
(*                                                                         *)
(* The claims are also saved.  That changes none of them, so it ends a     *)
(* behaviour here instead of being a step on the way to the Host.          *)
(***************************************************************************)
EXTENDS Targets, AgentPrompt, FileLayout

VARIABLES document, \* what save() is called for
          file      \* claims.md, as lines

fileVars == <<document, file>>
vars == <<claims, shown, stage, scan, batchVars, fileVars>>

NoDocument == [topic |-> <<>>, claims |-> <<>>, audit |-> <<>>]

Init == TargetsInit /\ BatchesInit /\ document = NoDocument /\ file = <<>>

Merge == TargetsNext /\ UNCHANGED <<batchVars, fileVars>>

\* The status that is written for a claim.
Written(status) == IF status = "OPEN" THEN "OPEN" ELSE "CLOSED"

\* save().  Bound: all claims but one have the same entries.
SaveClaims ==
    /\ stage = "idle"
    /\ stage' = "saved"
    /\ \E i \in DOMAIN claims, one, others \in Contents,
          topic \in Topics, audit \in Audits :
          document' = [topic |-> topic, audit |-> audit,
              claims |-> [j \in DOMAIN claims |->
                  [keyword |-> claims[j].keyword,
                   status |-> Written(claims[j].status),
                   entries |-> IF j = i THEN one ELSE others]]]
    /\ file' = FileLines(document')
    /\ UNCHANGED <<claims, shown, scan, batchVars>>

\* get_host_candidates: OPEN claims, and CLOSED ones with a pending request.
HostOrder ==
    LET kept == Picked(claims, {c \in ToSet(claims) : c.status # "CLOSED"})
    IN  [i \in DOMAIN kept |-> kept[i].keyword]

HostReferences == BuildReferences(HostOrder)

\* The responses of the round are merged; without candidates there is no Host.
AskHost ==
    /\ stage = "idle"
    /\ HostOrder # <<>>
    /\ stage' = "batching"
    /\ BeginBatches(HostOrder)
    /\ UNCHANGED <<claims, shown, scan, fileVars>>

FillBatches ==
    /\ stage = "batching"
    /\ candidates # <<>>
    /\ \/ SkipClaim
       \/ AddToBatch(HostReferences[candidates[1]])
       \/ NextBatch(HostReferences[candidates[1]])
    /\ UNCHANGED <<claims, shown, stage, scan, fileVars>>

Batched ==
    /\ stage = "batching"
    /\ candidates = <<>>
    /\ stage' = "batched"
    /\ FinishBatches
    /\ UNCHANGED <<claims, shown, scan, fileVars>>

Next == Merge \/ SaveClaims \/ AskHost \/ FillBatches \/ Batched

Spec == Init /\ [][Next]_vars

\* reference_to_keyword: the claims that the Host may mean by a reference.
Named(reference) == {k \in ToSet(HostOrder) : HostReferences[k] = reference}

\* The Host is shown every candidate whose block can be shown exactly once,
\* in the order of the claims and under a reference that leads back to it
\* alone; no batch is empty, has too many claims, or is too long once its
\* blocks are joined.
EachBlockOnce ==
    stage = "batched" =>
        LET showable == Picked(HostOrder, {k \in ToSet(HostOrder) : Showable(k)})
            asked == FlattenSeq(batches)
        IN  /\ Len(asked) = Len(showable)
            /\ \A i \in DOMAIN asked : Named(asked[i]) = {showable[i]}
            /\ \A b \in DOMAIN batches :
                  /\ Len(batches[b]) \in 1..MaxClaims
                  /\ Joined([i \in DOMAIN batches[b] |->
                        CHOOSE k \in Named(batches[b][i]) : TRUE]) <= MaxChars

\* Text is lost only with a mark.  A block is within its limit, and it tells
\* the Host to continue if and only if some text that it should show is
\* missing from it: a cut is never silent, and a complete block never keeps
\* its claim from being closed.  The same holds in the sections of an agent's
\* prompt for the claims that the Host left OPEN; they do not depend on each
\* other, so the Host asks this agent about all of them or none.  The summary of
\* all candidates says when it is not the whole one.
LossIsMarked ==
    /\ \A k \in DOMAIN histories :
          Showable(k) => /\ Block(k).size <= BlockLimit
                         /\ Block(k).marked # Block(k).complete
    /\ stage = "batched" =>
          LET open == ToSet(HostOrder)
              n == Len(HostOrder)
          IN  /\ \A from \in 2..3 :
                    LET context == GlobalContext(HostOrder, from)
                    IN  /\ context.size <= ContextLimit
                        /\ context.truncated
                             \/ context.size = WholeContext(HostOrder, from)
              /\ \A s \in Additions :
                    Discloses(Requests(HostOrder, open, s), n, RequestBudget,
                              RequestsMark)
              /\ Discloses(Review(HostOrder, {}), n, ReviewBudget, OmittedMark)

\* What save() wrote is what a later reader of claims.md finds.
FileReadsBack == stage = "saved" => ReadsBack(document, file)
=============================================================================
