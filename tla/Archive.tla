------------------------------- MODULE Archive -------------------------------
(***************************************************************************)
(* The files of a discussion: the session directory that Archiver makes    *)
(* (discuss_agent/persistence.py), the order in which run() writes to it   *)
(* (discuss_agent/engine.py), and ClaimsManager.save, which replaces       *)
(* claims.md (discuss_agent/claims.py).                                    *)
(*                                                                         *)
(* Several runs may work at a time, each in the directory named by the     *)
(* minute in which it began.  Any write may fail, a run may be killed      *)
(* between any two of its steps, and the power may be lost.                *)
(*                                                                         *)
(* claims.md has the claims after a merge or after a judgment; `version'   *)
(* numbers these states, 2n - 1 and 2n in round n.  What claims, rounds    *)
(* and verdicts hold is left out, as is which rounds have candidates and   *)
(* when the room converges.                                                *)
(*                                                                         *)
(* All files but claims.md are opened, which empties them, and then        *)
(* written.  A loss of power may also take away what was written to them,  *)
(* which is not modelled: nothing below says that one of them is there     *)
(* after it.                                                               *)
(*                                                                         *)
(* An operator marked "Mutation" is the next definition with a bug that    *)
(* the code could have.  The specification does not use it.                *)
(***************************************************************************)
EXTENDS Integers

CONSTANTS Runs,        \* runs of the program, by any process
          NoRun,       \* the writer of a file that is not there
          MaxMinute,   \* the minutes runs may begin in
          MaxRounds,   \* discussion.max_rounds
          SkipSummary  \* host.skip_summary

ASSUME NoRunAssumption == NoRun \notin Runs
ASSUME MinuteAssumption == MaxMinute \in Nat \ {0}
ASSUME RoundsAssumption == MaxRounds \in Nat \ {0}
ASSUME SummaryAssumption == SkipSummary \in BOOLEAN

Minutes == 1..MaxMinute
Rounds == 1..MaxRounds

VARIABLES
    minute,   \* of datetime.now()
    pc,       \* where each run() is
    session,  \* the directory of each run, once it has begun
    round,    \* round_num
    version,  \* the claims each run has in memory
    saved,    \* the version of the last save() that returned
    opened,   \* has the run opened the file it is about to write?
    temp,     \* the temporary file of its save()
    files,    \* all files but claims.md, per directory
    claims,   \* claims.md, per directory
    kept,     \* what a loss of power may leave of claims.md
    lost      \* has the power been lost?

runVars == <<pc, session, round, version, saved>>
diskVars == <<files, claims, kept>>
vars == <<minute, runVars, opened, temp, diskVars, lost>>

File ==
    {<<name, 0>> : name \in {"config", "context", "summary", "error"}}
      \cup {"agents", "host"} \X Rounds

Content == [by : Runs \cup {NoRun}, whole : BOOLEAN]
Absent == [by |-> NoRun, whole |-> FALSE]

ClaimsText ==
    [by : Runs, version : 0..(2 * MaxRounds),
     data : {"synced", "unsynced", "torn"}]
NoClaims == [by |-> NoRun, version |-> 0, data |-> "synced"]

Writing == {"config", "context", "agentsFile", "hostFile", "summary", "error"}
Saving == {"saveAgents", "saveHost"}
Thinking == {"audit", "prepare", "agents", "judge"}
Working == Writing \cup Saving \cup Thinking \cup {"room"}
Ended == {"converged", "limit", "failed", "raised", "crashed"}

TypeOK ==
    /\ minute \in Minutes
    /\ pc \in [Runs -> Working \cup Ended \cup {"idle"}]
    /\ session \in [Runs -> Minutes]
    /\ round \in [Runs -> Rounds]
    /\ version \in [Runs -> 0..(2 * MaxRounds)]
    /\ saved \in [Runs -> 0..(2 * MaxRounds)]
    /\ opened \in [Runs -> BOOLEAN]
    /\ temp \in [Runs -> {"none", "partial", "unsynced", "synced", "moved"}]
    /\ files \in [Minutes -> [File -> Content]]
    /\ claims \in [Minutes -> ClaimsText \cup {NoClaims}]
    /\ kept \in [Minutes -> SUBSET (ClaimsText \cup {NoClaims})]
    /\ lost \in BOOLEAN

Init ==
    /\ minute = 1
    /\ pc = [r \in Runs |-> "idle"]
    /\ session = [r \in Runs |-> 1]
    /\ round = [r \in Runs |-> 1]
    /\ version = [r \in Runs |-> 0]
    /\ saved = [r \in Runs |-> 0]
    /\ opened = [r \in Runs |-> FALSE]
    /\ temp = [r \in Runs |-> "none"]
    /\ files = [d \in Minutes |-> [f \in File |-> Absent]]
    /\ claims = [d \in Minutes |-> NoClaims]
    /\ kept = [d \in Minutes |-> {NoClaims}]
    /\ lost = FALSE

-----------------------------------------------------------------------------
(* The order of run(). *)

\* Mutation: the round is archived before the claims are saved.
Then_ArchiveFirst(p) ==
    CASE p = "config"     -> "audit"
      [] p = "audit"      -> "prepare"
      [] p = "prepare"    -> "context"
      [] p = "context"    -> "agents"
      [] p = "agents"     -> "agentsFile"
      [] p = "agentsFile" -> "saveAgents"
      [] p = "saveAgents" -> "judge"
      [] p = "judge"      -> "saveHost"
      [] p = "saveHost"   -> "hostFile"
      [] p = "hostFile"   -> "room"
      [] p = "summary"    -> "converged"
      [] p = "error"      -> "failed"

\* Mutation: the answers of the agents are archived after the judgment.
Then_ArchiveLate(p) ==
    CASE p = "config"     -> "audit"
      [] p = "audit"      -> "prepare"
      [] p = "prepare"    -> "context"
      [] p = "context"    -> "agents"
      [] p = "agents"     -> "saveAgents"
      [] p = "saveAgents" -> "judge"
      [] p = "judge"      -> "saveHost"
      [] p = "saveHost"   -> "agentsFile"
      [] p = "agentsFile" -> "hostFile"
      [] p = "hostFile"   -> "room"
      [] p = "summary"    -> "converged"
      [] p = "error"      -> "failed"

\* What comes after step p, when it succeeds and there is no choice.
Then(p) ==
    CASE p = "config"     -> "audit"
      [] p = "audit"      -> "prepare"
      [] p = "prepare"    -> "context"
      [] p = "context"    -> "agents"
      [] p = "agents"     -> "saveAgents"
      [] p = "saveAgents" -> "agentsFile"
      [] p = "agentsFile" -> "judge"
      [] p = "judge"      -> "saveHost"
      [] p = "saveHost"   -> "hostFile"
      [] p = "hostFile"   -> "room"
      [] p = "summary"    -> "converged"
      [] p = "error"      -> "failed"

\* Mutation: an exception is not recorded.
Handler_Silent(p) ==
    IF p \in {"config", "audit", "error"} THEN "raised" ELSE "failed"

\* Where an exception in step p goes: the session and the audit log are begun
\* before the try block, and save_error_log is called in its handler.
Handler(p) ==
    IF p \in {"config", "audit", "error"} THEN "raised" ELSE "error"

GoTo(r, p) == pc' = [pc EXCEPT ![r] = p]

TimePasses ==
    /\ minute < MaxMinute
    /\ minute' = minute + 1
    /\ UNCHANGED <<runVars, opened, temp, diskVars, lost>>

\* start_session makes the directory, or finds it made by another run.
Start(r) ==
    /\ pc[r] = "idle"
    /\ session' = [session EXCEPT ![r] = minute]
    /\ GoTo(r, "config")
    /\ UNCHANGED <<minute, round, version, saved, opened, temp, diskVars, lost>>

\* The audit log is ready, then tools, conversations and the context.
Prepare(r) ==
    /\ pc[r] \in {"audit", "prepare"}
    /\ GoTo(r, Then(pc[r]))
    /\ UNCHANGED <<minute, session, round, version, saved, opened, temp,
                   diskVars, lost>>

\* The agents have answered and their answers are merged in memory.
Merge(r) ==
    /\ pc[r] = "agents"
    /\ version' = [version EXCEPT ![r] = 2 * round[r] - 1]
    /\ GoTo(r, Then("agents"))
    /\ UNCHANGED <<minute, session, round, saved, opened, temp, diskVars, lost>>

\* No candidates: the Host is not asked.
SkipJudgment(r) ==
    /\ pc[r] = "judge"
    /\ GoTo(r, "room")
    /\ UNCHANGED <<minute, session, round, version, saved, opened, temp,
                   diskVars, lost>>

\* The Host has answered and the verdicts are applied in memory.
Judge(r) ==
    /\ pc[r] = "judge"
    /\ version' = [version EXCEPT ![r] = 2 * round[r]]
    /\ GoTo(r, Then("judge"))
    /\ UNCHANGED <<minute, session, round, saved, opened, temp, diskVars, lost>>

\* Mutation: one round too many.
RoundsLeft_OneMore(r) == round[r] <= MaxRounds

RoundsLeft(r) == round[r] < MaxRounds

NextRound(r) ==
    /\ pc[r] = "room"
    /\ RoundsLeft(r)
    /\ round' = [round EXCEPT ![r] = @ + 1]
    /\ GoTo(r, "agents")
    /\ UNCHANGED <<minute, session, version, saved, opened, temp, diskVars, lost>>

\* The room has converged, or there is no round left.
LeaveRoom(r) ==
    /\ pc[r] = "room"
    /\ \/ GoTo(r, IF SkipSummary THEN "converged" ELSE "summary")
       \/ ~RoundsLeft(r) /\ GoTo(r, "limit")
    /\ UNCHANGED <<minute, session, round, version, saved, opened, temp,
                   diskVars, lost>>

\* A step that writes no file raises.
StepFails(r) ==
    /\ pc[r] \in Thinking
    /\ GoTo(r, Handler(pc[r]))
    /\ UNCHANGED <<minute, session, round, version, saved, opened, temp,
                   diskVars, lost>>

-----------------------------------------------------------------------------
(* Files written by write_text: config.yaml, context.md, the rounds,       *)
(* summary.md and error.log.                                               *)

\* The file that run r is to write at its place.
Target(r) ==
    CASE pc[r] = "agentsFile" -> <<"agents", round[r]>>
      [] pc[r] = "hostFile"   -> <<"host", round[r]>>
      [] OTHER                -> <<pc[r], 0>>

PutFile(r, content) ==
    files' = [files EXCEPT ![session[r]][Target(r)] = content]

\* The file is there from now on, and empty.
OpenFile(r) ==
    /\ pc[r] \in Writing
    /\ ~opened[r]
    /\ opened' = [opened EXCEPT ![r] = TRUE]
    /\ PutFile(r, [by |-> r, whole |-> FALSE])
    /\ UNCHANGED <<minute, runVars, temp, claims, kept, lost>>

\* What another run has written since then is overwritten, but may be longer.
WriteFile(r) ==
    /\ pc[r] \in Writing
    /\ opened[r]
    /\ opened' = [opened EXCEPT ![r] = FALSE]
    /\ \E whole \in BOOLEAN :
          /\ files[session[r]][Target(r)].whole \/ whole
          /\ PutFile(r, [by |-> r, whole |-> whole])
    /\ GoTo(r, Then(pc[r]))
    /\ UNCHANGED <<minute, session, round, version, saved, temp, claims, kept,
                   lost>>

\* It cannot be opened or not be written in full, or the Host fails when it
\* is asked for the summary.
FileFails(r) ==
    /\ pc[r] \in Writing
    /\ opened' = [opened EXCEPT ![r] = FALSE]
    /\ GoTo(r, Handler(pc[r]))
    /\ UNCHANGED <<minute, session, round, version, saved, temp, diskVars, lost>>

-----------------------------------------------------------------------------
(* ClaimsManager.save: a temporary file of its own, then a replacement.    *)

CreateTemp(r) ==
    /\ pc[r] \in Saving
    /\ temp[r] = "none"
    /\ temp' = [temp EXCEPT ![r] = "partial"]
    /\ UNCHANGED <<minute, runVars, opened, diskVars, lost>>

\* Mutation: the temporary file is not synchronised before it is moved.
FillTemp_NoSync(r) ==
    /\ pc[r] \in Saving
    /\ temp[r] = "partial"
    /\ temp' = [temp EXCEPT ![r] = "unsynced"]
    /\ UNCHANGED <<minute, runVars, opened, diskVars, lost>>

\* write, flush and fsync
FillTemp(r) ==
    /\ pc[r] \in Saving
    /\ temp[r] = "partial"
    /\ temp' = [temp EXCEPT ![r] = "synced"]
    /\ UNCHANGED <<minute, runVars, opened, diskVars, lost>>

\* The text in the temporary file.
TempText(r) == [by |-> r, version |-> version[r], data |-> temp[r]]

\* os.replace: a loss of power may still undo it.
ReplaceClaims(r) ==
    /\ pc[r] \in Saving
    /\ temp[r] \in {"unsynced", "synced"}
    /\ temp' = [temp EXCEPT ![r] = "moved"]
    /\ claims' = [claims EXCEPT ![session[r]] = TempText(r)]
    /\ kept' = [kept EXCEPT ![session[r]] = @ \cup {TempText(r)}]
    /\ UNCHANGED <<minute, runVars, opened, files, lost>>

\* Mutation: the directory is not synchronised.
SyncDirectory_Not(r) ==
    /\ pc[r] \in Saving
    /\ temp[r] = "moved"
    /\ temp' = [temp EXCEPT ![r] = "none"]
    /\ saved' = [saved EXCEPT ![r] = version[r]]
    /\ GoTo(r, Then(pc[r]))
    /\ UNCHANGED <<minute, session, round, version, opened, diskVars, lost>>

\* The directory is synchronised and save() returns.
SyncDirectory(r) ==
    /\ pc[r] \in Saving
    /\ temp[r] = "moved"
    /\ temp' = [temp EXCEPT ![r] = "none"]
    /\ kept' = [kept EXCEPT ![session[r]] = {claims[session[r]]}]
    /\ saved' = [saved EXCEPT ![r] = version[r]]
    /\ GoTo(r, Then(pc[r]))
    /\ UNCHANGED <<minute, session, round, version, opened, files, claims, lost>>

\* Mutation: the temporary file is left behind.
AfterFailure_Kept(t) == t

\* The temporary file after the `finally' block of a save() that raises.
AfterFailure(t) == "none"

\* Any step of save() raises.
SaveFails(r) ==
    /\ pc[r] \in Saving
    /\ temp' = [temp EXCEPT ![r] = AfterFailure(@)]
    /\ GoTo(r, Handler(pc[r]))
    /\ UNCHANGED <<minute, session, round, version, saved, opened, diskVars,
                   lost>>

-----------------------------------------------------------------------------
(* Crashes. *)

\* The process is killed.
Crash(r) ==
    /\ pc[r] \in Working
    /\ GoTo(r, "crashed")
    /\ opened' = [opened EXCEPT ![r] = FALSE]
    /\ UNCHANGED <<minute, session, round, version, saved, temp, diskVars, lost>>

\* What is found of a file whose data may not have reached the disk.
Survivors(text) ==
    IF text.data = "unsynced"
    THEN {text, [text EXCEPT !.data = "torn"]}
    ELSE {text}

\* What may be found of claims.md in directory d.
Found(d) == UNION {Survivors(text) : text \in kept[d]}

\* Once in a behaviour, every run that works dies with its machine.
PowerLoss ==
    /\ ~lost
    /\ lost' = TRUE
    /\ pc' = [r \in Runs |-> IF pc[r] \in Working THEN "crashed" ELSE pc[r]]
    /\ opened' = [r \in Runs |-> FALSE]
    /\ claims' \in [Minutes -> UNION {Found(d) : d \in Minutes}]
    /\ \A d \in Minutes : claims'[d] \in Found(d)
    /\ kept' = [d \in Minutes |-> {claims'[d]}]
    /\ UNCHANGED <<minute, session, round, version, saved, temp, files>>

-----------------------------------------------------------------------------
EngineStep(r) ==
    \/ Prepare(r) \/ Merge(r) \/ SkipJudgment(r) \/ Judge(r)
    \/ NextRound(r) \/ LeaveRoom(r) \/ StepFails(r)

FileStep(r) == OpenFile(r) \/ WriteFile(r) \/ FileFails(r)

SaveStep(r) ==
    \/ CreateTemp(r) \/ FillTemp(r) \/ ReplaceClaims(r) \/ SyncDirectory(r)
    \/ SaveFails(r)

\* All runs have ended.
Finished ==
    /\ minute = MaxMinute
    /\ \A r \in Runs : pc[r] \in Ended
    /\ UNCHANGED vars

Next ==
    \/ TimePasses
    \/ \E r \in Runs :
          Start(r) \/ EngineStep(r) \/ FileStep(r) \/ SaveStep(r) \/ Crash(r)
    \/ PowerLoss
    \/ Finished

Spec == Init /\ [][Next]_vars

-----------------------------------------------------------------------------
(* Properties. *)

Began(r) == pc[r] # "idle"

Written(r, f) ==
    /\ files[session[r]][f].by = r
    /\ files[session[r]][f].whole

\* No other run has the directory of run r.
Alone(r) ==
    /\ Began(r)
    /\ \A s \in Runs \ {r} : Began(s) => session[s] # session[r]

\* A reader finds no claims.md or the whole text of a save, whatever has
\* failed or crashed, and whoever else writes to the directory.
ClaimsNeverTorn == \A d \in Minutes : claims[d].data # "torn"

\* What a save() that returned has put into claims.md is not taken away by a
\* later failure, crash or loss of power.
SavedSurvives ==
    \A r \in Runs :
        saved[r] > 0 =>
            /\ claims[session[r]].by # NoRun
            /\ claims[session[r]].by = r => claims[session[r]].version >= saved[r]

\* A whole round file is never ahead of claims.md: the claims in there have
\* the answers, and the verdicts, of every round that is archived.
RoundsFollowClaims ==
    \A r \in Runs : \A n \in Rounds :
        LET found == claims[session[r]]
        IN Began(r) /\ found.by = r =>
              /\ Written(r, <<"agents", n>>) => found.version >= 2 * n - 1
              /\ Written(r, <<"host", n>>) => found.version >= 2 * n

\* Without a loss of power claims.md is ahead of the round files by the last
\* save at most: once a judgment or a later round is in there, the answers
\* are archived that it was based on.
ClaimsAheadByOneSave ==
    ~lost => \A r \in Runs : \A n \in Rounds :
        LET found == claims[session[r]]
        IN Alone(r) /\ found.version > 2 * n - 1 => Written(r, <<"agents", n>>)

\* The directory of run r holds what it has written in its rounds.
Archived(r) ==
    LET found == claims[session[r]]
    IN /\ Written(r, <<"config", 0>>) /\ Written(r, <<"context", 0>>)
       /\ \A n \in 1..round[r] : Written(r, <<"agents", n>>)
       /\ found.by = r /\ found.version = version[r]

\* What the directory tells of a run that has returned, the power permitting:
\* there is an error.log exactly if it returned an error; otherwise all of its
\* rounds are there, and a summary exactly if it converged with one.  No
\* temporary file is left, whichever save failed.
OutcomeOnDisk ==
    \A r \in Runs :
        LET summary == files[session[r]][<<"summary", 0>>]
        IN pc[r] \in {"converged", "limit", "failed"} /\ Alone(r) /\ ~lost =>
              /\ Written(r, <<"error", 0>>) <=> pc[r] = "failed"
              /\ pc[r] # "failed" => Archived(r)
              /\ pc[r] = "converged" /\ ~SkipSummary => Written(r, <<"summary", 0>>)
              /\ pc[r] = "limit" => summary = Absent
              /\ temp[r] = "none"

\* What run r is saving, in the terms of AtomicFile.
Offered(r) ==
    IF pc[r] \in Saving /\ temp[r] # "none"
    THEN [file |-> session[r],
          text |-> [by |-> r, version |-> version[r], data |-> "synced"],
          place |-> IF temp[r] = "moved" THEN "target" ELSE "temp"]
    ELSE NoClaims

ClaimsFile ==
    INSTANCE AtomicFile
        WITH Writers <- Runs, Files <- Minutes, Texts <- ClaimsText,
             NoText <- NoClaims, text <- claims, kept <- kept,
             offer <- [r \in Runs |-> Offered(r)]

\* Saving over a temporary file gives every directory a claims.md that is
\* replaced at once and for good.
ImplementsAtomicFile == ClaimsFile!Spec

\* README: "Output is archived to `discussions/{timestamp}/` with config,
\* rounds", in a "newly created session directory" (persistence.py).  A run
\* that has returned finds there what it wrote.
ReturnedRunIsArchived ==
    \A r \in Runs : pc[r] \in {"converged", "limit"} /\ ~lost => Archived(r)
=============================================================================
