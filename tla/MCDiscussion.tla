---------------------------- MODULE MCDiscussion ----------------------------
(***************************************************************************)
(* Discussion for TLC: the outputs agents may give are the sequences of at *)
(* most MaxResponses responses over the non-empty sets of target keywords. *)
(***************************************************************************)
EXTENDS Discussion, SequencesExt, TLC

CONSTANTS MaxResponses

Targets == SUBSET Keywords \ {{}}

MC_Responses ==
    [type : {"NEW_CLAIM"}, targets : {{k} : k \in Keywords}]
      \cup [type : {"RESPONSE"}, targets : Targets]
      \cup [type : {"REOPEN_REQUEST"}, targets : Targets,
            payload : Payloads \cup {Malformed}]

MC_Outputs == SeqOf(MC_Responses, MaxResponses)

\* Only proposals and well-formed requests, for longer runs.
MC_ShortOutputs ==
    SeqOf({r \in MC_Responses :
              /\ Cardinality(r.targets) = 1
              /\ \/ r.type = "NEW_CLAIM"
                 \/ r.type = "REOPEN_REQUEST" /\ r.payload \in Payloads},
          MaxResponses)

\* Keywords are interchangeable.
KeywordSymmetry == Permutations(Keywords)

\* Two routings: nobody named, and everybody.
MC_Needs == {{}, Agents}
MC_NeedsAll == {Agents}
=============================================================================
