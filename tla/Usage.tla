------------------------------- MODULE Usage --------------------------------
(***************************************************************************)
(* The audit log of one participant and what generate_usage_summary makes  *)
(* of it (discuss_agent/audit.py): the number of its calls for the table   *)
(* "Per Agent", and its calls in order, of which the n-th goes into row n  *)
(* of the table "Per Round".  Each row and each total is a sum over the    *)
(* participants; durations are abstracted to the place of the event that   *)
(* holds them.  The events of tools and tokens are left out: the summary   *)
(* skips the former, and nothing writes the latter.                        *)
(*                                                                         *)
(* An operator marked "Mutation" is the next definition with a bug that    *)
(* the code could have.  The specification does not use it.                *)
(***************************************************************************)
EXTENDS Integers, Sequences, SequencesExt

Event(name, round) == [event |-> name, round |-> round]

CallStart(round) == <<Event("call_start", round)>>

CallEnd(round) == <<Event("call_end", round)>>

\* Mutation: a failed call has no end.
FailedCallEnd_ErrorOnly(round) == <<Event("error", round)>>

\* What a call that raises leaves in the log after its start.
FailedCallEnd(round) == <<Event("error", round)>> \o CallEnd(round)

\* The calls that "Per Agent" counts, by the place of their end.
CountedCalls(log) == {i \in DOMAIN log : log[i].event = "call_end"}

NoCalls == [started |-> FALSE, ended |-> << >>]

\* Mutation: an error ends the current call.
AfterEvent_ErrorEnds(calls, event, place) ==
    CASE event = "call_start" -> [calls EXCEPT !.started = TRUE]
      [] event = "error" -> [calls EXCEPT !.started = FALSE]
      [] event = "call_end" /\ calls.started ->
            [started |-> FALSE, ended |-> Append(calls.ended, place)]
      [] OTHER -> calls

\* One event of the log, at a place in it: a call_start begins the current
\* call anew, the next call_end adds it to the calls.
AfterEvent(calls, event, place) ==
    CASE event = "call_start" -> [calls EXCEPT !.started = TRUE]
      [] event = "call_end" /\ calls.started ->
            [started |-> FALSE, ended |-> Append(calls.ended, place)]
      [] OTHER -> calls

\* The calls of "Per Round", in the order of their rows.
RowCalls(log) ==
    FoldLeftDomain(LAMBDA calls, i : AfterEvent(calls, log[i].event, i),
                   NoCalls, log).ended
=============================================================================
