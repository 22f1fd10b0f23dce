--------------------------- MODULE ArchiveProofs ----------------------------
(***************************************************************************)
(* Theorems about Archive, for any runs, minutes and rounds.               *)
(***************************************************************************)
EXTENDS Archive, TLAPS

\* The table of steps, one equation a step.
LEMMA ThenFacts ==
    /\ Then("config") = "audit"        /\ Then("audit") = "prepare"
    /\ Then("prepare") = "context"
    /\ Then("context") = "agents"      /\ Then("agents") = "saveAgents"
    /\ Then("saveAgents") = "agentsFile"
    /\ Then("agentsFile") = "judge"    /\ Then("judge") = "saveHost"
    /\ Then("saveHost") = "hostFile"   /\ Then("hostFile") = "room"
    /\ Then("summary") = "converged"   /\ Then("error") = "failed"
BY DEF Then

Places == Working \cup Ended \cup {"idle"}

LEMMA HandlerFacts ==
    ASSUME NEW p PROVE Handler(p) \in {"error", "raised"}
BY DEF Handler

\* The kinds of files.
LEMMA FileFacts ==
    /\ \A name \in {"config", "context", "summary", "error"} : <<name, 0>> \in File
    /\ \A n \in Rounds : <<"agents", n>> \in File /\ <<"host", n>> \in File
BY DEF File

LEMMA TargetFacts ==
    ASSUME TypeOK, NEW r \in Runs, pc[r] \in Writing
    PROVE  /\ Target(r) \in File
           /\ pc[r] = "agentsFile" => Target(r) = <<"agents", round[r]>>
           /\ pc[r] = "hostFile" => Target(r) = <<"host", round[r]>>
           /\ pc[r] \notin {"agentsFile", "hostFile"} => Target(r) = <<pc[r], 0>>
<1>1. /\ pc[r] = "agentsFile" => Target(r) = <<"agents", round[r]>>
      /\ pc[r] = "hostFile" => Target(r) = <<"host", round[r]>>
      /\ pc[r] \notin {"agentsFile", "hostFile"} => Target(r) = <<pc[r], 0>>
  BY DEF Target
<1>2. round[r] \in Rounds
  BY DEF TypeOK
<1> QED BY <1>1, <1>2, FileFacts DEF Writing

\* Writing one file leaves the others.
LEMMA PutFileFacts ==
    ASSUME TypeOK, NEW r \in Runs, pc[r] \in Writing, NEW c \in Content,
           PutFile(r, c)
    PROVE  /\ files' \in [Minutes -> [File -> Content]]
           /\ \A d \in Minutes, f \in File :
                 files'[d][f] = IF d = session[r] /\ f = Target(r)
                                THEN c ELSE files[d][f]
<1>1. session[r] \in Minutes /\ Target(r) \in File
  BY TargetFacts DEF TypeOK
<1>2. files \in [Minutes -> [File -> Content]]
  BY DEF TypeOK
<1> QED BY <1>1, <1>2 DEF PutFile

-----------------------------------------------------------------------------
(* Type correctness. *)

LEMMA InitTypes == Init => TypeOK
<1> SUFFICES ASSUME Init PROVE TypeOK
  OBVIOUS
<1>1. 1 \in Minutes /\ 1 \in Rounds /\ 0 \in 0..(2 * MaxRounds)
  BY MinuteAssumption, RoundsAssumption DEF Minutes, Rounds
<1>2. Absent \in Content
  BY DEF Absent, Content
<1> QED BY <1>1, <1>2 DEF Init, TypeOK

LEMMA StepTypes == TypeOK /\ [Next]_vars => TypeOK'
<1> SUFFICES ASSUME TypeOK, [Next]_vars PROVE TypeOK'
  OBVIOUS
<1>a. ASSUME NEW r \in Runs, NEW p \in Places, GoTo(r, p)
      PROVE  pc' \in [Runs -> Places]
  BY <1>a DEF TypeOK, GoTo, Places
<1>t. \A p \in Writing \cup Saving \cup Thinking :
         Then(p) \in Places /\ Handler(p) \in Places
  BY ThenFacts, HandlerFacts DEF Places, Writing, Saving, Thinking, Working, Ended
<1>p. (pc' \in [Runs -> Places]) <=> (pc' \in [Runs -> Working \cup Ended \cup {"idle"}])
  BY DEF Places
<1>v. \A n \in Rounds : 2 * n - 1 \in 0..(2 * MaxRounds) /\ 2 * n \in 0..(2 * MaxRounds)
  BY RoundsAssumption DEF Rounds
<1>1. CASE TimePasses
  <2>1. minute' \in Minutes
    BY <1>1, MinuteAssumption DEF TimePasses, TypeOK, Minutes
  <2> QED BY <1>1, <2>1 DEF TimePasses, TypeOK, runVars, diskVars
<1>2. ASSUME NEW r \in Runs, Start(r) PROVE TypeOK'
  <2>1. pc' \in [Runs -> Places]
    BY <1>2, <1>a DEF Start, Places, Working, Writing
  <2> QED BY <1>2, <2>1, <1>p DEF Start, TypeOK, diskVars
<1>3. ASSUME NEW r \in Runs, EngineStep(r) PROVE TypeOK'
  <2>1. pc' \in [Runs -> Places]
    BY <1>3, <1>a, <1>t DEF EngineStep, Prepare, Merge, SkipJudgment, Judge,
       NextRound, LeaveRoom, StepFails, Places, Thinking, Working, Ended, Writing, Saving
  <2>2. version' \in [Runs -> 0..(2 * MaxRounds)]
    BY <1>3, <1>v DEF EngineStep, Prepare, Merge, SkipJudgment, Judge,
       NextRound, LeaveRoom, StepFails, TypeOK
  <2>3. round' \in [Runs -> Rounds]
    <3>1. CASE NextRound(r)
      <4>1. round[r] + 1 \in Rounds
        BY <3>1, RoundsAssumption DEF NextRound, RoundsLeft, TypeOK, Rounds
      <4> QED BY <3>1, <4>1 DEF NextRound, TypeOK
    <3> QED BY <1>3, <3>1 DEF EngineStep, Prepare, Merge, SkipJudgment, Judge,
       LeaveRoom, StepFails, TypeOK
  <2>4. UNCHANGED <<minute, session, saved, opened, temp, diskVars, lost>>
    BY <1>3 DEF EngineStep, Prepare, Merge, SkipJudgment, Judge, NextRound,
       LeaveRoom, StepFails
  <2> QED BY <2>1, <2>2, <2>3, <2>4, <1>p DEF TypeOK, diskVars
<1>4. ASSUME NEW r \in Runs, FileStep(r) PROVE TypeOK'
  <2>1. CASE OpenFile(r)
    <3>1. [by |-> r, whole |-> FALSE] \in Content
      BY DEF Content
    <3>2. files' \in [Minutes -> [File -> Content]]
      BY <2>1, <3>1, PutFileFacts DEF OpenFile
    <3> QED BY <2>1, <3>2 DEF OpenFile, TypeOK, runVars
  <2>2. CASE WriteFile(r)
    <3>1. PICK whole \in BOOLEAN : PutFile(r, [by |-> r, whole |-> whole])
      BY <2>2 DEF WriteFile
    <3>2. [by |-> r, whole |-> whole] \in Content
      BY DEF Content
    <3>3. files' \in [Minutes -> [File -> Content]]
      BY <2>2, <3>1, <3>2, PutFileFacts DEF WriteFile
    <3>4. pc' \in [Runs -> Places]
      BY <2>2, <1>a, <1>t DEF WriteFile
    <3> QED BY <2>2, <3>3, <3>4, <1>p DEF WriteFile, TypeOK
  <2>3. CASE FileFails(r)
    <3>1. pc' \in [Runs -> Places]
      BY <2>3, <1>a, <1>t DEF FileFails
    <3> QED BY <2>3, <3>1, <1>p DEF FileFails, TypeOK, diskVars
  <2> QED BY <1>4, <2>1, <2>2, <2>3 DEF FileStep
<1>5. ASSUME NEW r \in Runs, SaveStep(r) PROVE TypeOK'
  <2>1. CASE CreateTemp(r)
    BY <2>1 DEF CreateTemp, TypeOK, runVars, diskVars
  <2>2. CASE FillTemp(r)
    BY <2>2 DEF FillTemp, TypeOK, runVars, diskVars
  <2>3. CASE ReplaceClaims(r)
    <3>1. TempText(r) \in ClaimsText
      BY <2>3 DEF ReplaceClaims, TempText, ClaimsText, TypeOK
    <3>2. /\ claims' \in [Minutes -> ClaimsText \cup {NoClaims}]
          /\ kept' \in [Minutes -> SUBSET (ClaimsText \cup {NoClaims})]
      BY <2>3, <3>1 DEF ReplaceClaims, TypeOK
    <3>3. temp' \in [Runs -> {"none", "partial", "unsynced", "synced", "moved"}]
      BY <2>3 DEF ReplaceClaims, TypeOK
    <3> QED BY <2>3, <3>2, <3>3 DEF ReplaceClaims, TypeOK, runVars
  <2>4. CASE SyncDirectory(r)
    <3>1. pc' \in [Runs -> Places]
      BY <2>4, <1>a, <1>t DEF SyncDirectory
    <3>2. kept' \in [Minutes -> SUBSET (ClaimsText \cup {NoClaims})]
      BY <2>4 DEF SyncDirectory, TypeOK
    <3> QED BY <2>4, <3>1, <3>2, <1>p DEF SyncDirectory, TypeOK
  <2>5. CASE SaveFails(r)
    <3>1. pc' \in [Runs -> Places]
      BY <2>5, <1>a, <1>t DEF SaveFails
    <3> QED BY <2>5, <3>1, <1>p DEF SaveFails, AfterFailure, TypeOK, diskVars
  <2> QED BY <1>5, <2>1, <2>2, <2>3, <2>4, <2>5 DEF SaveStep
<1>6. ASSUME NEW r \in Runs, Crash(r) PROVE TypeOK'
  <2>1. pc' \in [Runs -> Places]
    BY <1>6, <1>a DEF Crash, Places, Ended
  <2> QED BY <1>6, <2>1, <1>p DEF Crash, TypeOK, diskVars
<1>7. CASE PowerLoss
  <2>1. pc' \in [Runs -> Places]
    BY <1>7 DEF PowerLoss, TypeOK, Places, Ended
  <2>2. \A d \in Minutes : Found(d) \subseteq ClaimsText \cup {NoClaims}
    <3> SUFFICES ASSUME NEW d \in Minutes, NEW t \in kept[d]
                 PROVE  Survivors(t) \subseteq ClaimsText \cup {NoClaims}
      BY DEF Found
    <3>1. t \in ClaimsText \cup {NoClaims}
      BY DEF TypeOK
    <3> QED BY <3>1 DEF Survivors, ClaimsText, NoClaims
  <2>3. /\ claims' \in [Minutes -> ClaimsText \cup {NoClaims}]
        /\ kept' \in [Minutes -> SUBSET (ClaimsText \cup {NoClaims})]
    BY <1>7, <2>2 DEF PowerLoss
  <2> QED BY <1>7, <2>1, <2>3, <1>p DEF PowerLoss, TypeOK
<1>8. CASE UNCHANGED vars
  BY <1>8 DEF TypeOK, vars, runVars, diskVars
<1> QED BY <1>1, <1>2, <1>3, <1>4, <1>5, <1>6, <1>7, <1>8 DEF Next, Finished

\* The variables keep their types.
THEOREM ArchiveTypes == Spec => []TypeOK
BY InitTypes, StepTypes, PTL DEF Spec

-----------------------------------------------------------------------------
(* The inductive invariant. *)

\* No text is found, or may be found later, that was not written in full.
Durable ==
    /\ \A d \in Minutes :
          /\ claims[d] \in kept[d]
          /\ \A t \in kept[d] : t.data = "synced"
    /\ \A r \in Runs : temp[r] # "unsynced"

\* How far the saves of run r are at each of its places.
Progress(r) ==
    /\ saved[r] <= version[r]
    /\ pc[r] \in {"idle", "config", "audit", "prepare", "context"} =>
          round[r] = 1 /\ version[r] = 0
    /\ pc[r] = "agents" => version[r] <= 2 * round[r] - 2
    /\ pc[r] = "saveAgents" => version[r] = 2 * round[r] - 1
    /\ pc[r] \in {"agentsFile", "judge"} =>
          version[r] = 2 * round[r] - 1 /\ saved[r] = version[r]
    /\ pc[r] = "saveHost" => version[r] = 2 * round[r]
    /\ pc[r] = "hostFile" => version[r] = 2 * round[r] /\ saved[r] = version[r]
    /\ pc[r] = "room" => version[r] <= 2 * round[r]

\* A temporary file belongs to a save or was left by a crash.
TempOwned(r) == temp[r] = "none" \/ pc[r] \in Saving \cup {"crashed"}

\* A text of run r in t is not older than version v.
NotOlder(t, r, v) == t.by # NoRun /\ (t.by = r => t.version >= v)

\* What may be found after a loss of power is as good as the last save.
Kept(r) == saved[r] > 0 => \A t \in kept[session[r]] : NotOlder(t, r, saved[r])

\* What the run has moved is found until somebody else moves something.
Moved(r) ==
    pc[r] \in Saving /\ temp[r] = "moved" =>
        NotOlder(claims[session[r]], r, version[r])

\* Only what is saved is archived.
Recorded(r) ==
    \A d \in Minutes : \A n \in Rounds :
        LET agents == files[d][<<"agents", n>>]
            host == files[d][<<"host", n>>]
        IN /\ agents.by = r /\ agents.whole => saved[r] >= 2 * n - 1
           /\ host.by = r /\ host.whole => saved[r] >= 2 * n

Inv ==
    /\ TypeOK
    /\ Durable
    /\ \A r \in Runs :
          Progress(r) /\ TempOwned(r) /\ Kept(r) /\ Moved(r) /\ Recorded(r)

LEMMA InitInv == Init => Inv
<1> SUFFICES ASSUME Init PROVE Inv
  OBVIOUS
<1>1. TypeOK
  BY InitTypes
<1>2. Durable
  BY DEF Init, Durable, NoClaims
<1>3. ASSUME NEW r \in Runs
      PROVE  Progress(r) /\ TempOwned(r) /\ Kept(r) /\ Moved(r)
  BY DEF Init, Progress, TempOwned, Kept, Moved, Saving
<1>4. ASSUME NEW r \in Runs PROVE Recorded(r)
  BY FileFacts DEF Init, Recorded, Absent
<1> QED BY <1>1, <1>2, <1>3, <1>4 DEF Inv

\* Nothing is saved and nothing moved, and no round file is written.
LEMMA QuietStep ==
    ASSUME Inv, TypeOK', NEW r \in Runs,
           UNCHANGED <<session, saved, claims, kept>>,
           \A s \in Runs \ {r} : pc'[s] = pc[s] /\ temp'[s] = temp[s] /\ version'[s] = version[s],
           temp'[r] # "unsynced",
           pc'[r] \in Saving => temp'[r] # "moved",
           \A d \in Minutes, n \in Rounds :
              /\ \/ files'[d][<<"agents", n>>] = files[d][<<"agents", n>>]
                 \/ ~files'[d][<<"agents", n>>].whole
              /\ \/ files'[d][<<"host", n>>] = files[d][<<"host", n>>]
                 \/ ~files'[d][<<"host", n>>].whole
    PROVE  Durable' /\ \A s \in Runs : Kept(s)' /\ Moved(s)' /\ Recorded(s)'
<1>1. Durable'
  BY DEF Inv, Durable
<1>2. ASSUME NEW s \in Runs PROVE Kept(s)'
  BY DEF Inv, Kept
<1>3. ASSUME NEW s \in Runs PROVE Moved(s)'
  BY DEF Inv, Moved
<1>4. ASSUME NEW s \in Runs PROVE Recorded(s)'
  BY DEF Inv, Recorded
<1> QED BY <1>1, <1>2, <1>3, <1>4

LEMMA EngineStepInv ==
    ASSUME Inv, TypeOK', NEW r \in Runs, EngineStep(r)
    PROVE  Inv'
<1>1. /\ UNCHANGED <<session, saved, opened, temp, files, claims, kept>>
      /\ \A s \in Runs \ {r} : /\ pc'[s] = pc[s] /\ version'[s] = version[s]
                               /\ round'[s] = round[s]
  BY DEF EngineStep, Prepare, Merge, SkipJudgment, Judge, NextRound, LeaveRoom,
     StepFails, GoTo, diskVars, Inv, TypeOK
<1>2. /\ pc[r] \in Thinking \cup {"room"}
      /\ temp[r] = "none"
  BY DEF EngineStep, Prepare, Merge, SkipJudgment, Judge, NextRound, LeaveRoom,
     StepFails, Inv, TempOwned, Saving, Thinking
<1>3. Progress(r)'
  <2>0. /\ round[r] \in Nat /\ version[r] \in Nat /\ saved[r] \in Nat
        /\ Progress(r) /\ pc \in [Runs -> Working \cup Ended \cup {"idle"}]
        /\ version \in [Runs -> 0..(2 * MaxRounds)] /\ round \in [Runs -> Rounds]
    BY RoundsAssumption DEF Inv, TypeOK, Rounds
  <2>1. CASE Prepare(r)
    BY <1>1, <2>0, <2>1, ThenFacts DEF Prepare, GoTo, Progress
  <2>2. CASE Merge(r)
    BY <1>1, <2>0, <2>2, ThenFacts DEF Merge, GoTo, Progress
  <2>3. CASE SkipJudgment(r)
    BY <1>1, <2>0, <2>3 DEF SkipJudgment, GoTo, Progress
  <2>4. CASE Judge(r)
    BY <1>1, <2>0, <2>4, ThenFacts DEF Judge, GoTo, Progress
  <2>5. CASE NextRound(r)
    BY <1>1, <2>0, <2>5 DEF NextRound, GoTo, Progress
  <2>6. CASE LeaveRoom(r)
    BY <1>1, <2>0, <2>6 DEF LeaveRoom, GoTo, Progress
  <2>7. CASE StepFails(r)
    <3>1. pc'[r] \in {"error", "raised"}
      BY <2>0, <2>7, HandlerFacts DEF StepFails, GoTo
    <3> QED BY <1>1, <2>0, <2>7, <3>1 DEF StepFails, Progress
  <2> QED BY <2>1, <2>2, <2>3, <2>4, <2>5, <2>6, <2>7 DEF EngineStep
<1>4. ASSUME NEW s \in Runs PROVE Progress(s)' /\ TempOwned(s)'
  BY <1>1, <1>2, <1>3 DEF Inv, Progress, TempOwned
<1>5. Durable' /\ \A s \in Runs : Kept(s)' /\ Moved(s)' /\ Recorded(s)'
  BY <1>1, <1>2, QuietStep DEF Inv, Durable
<1> QED BY <1>4, <1>5 DEF Inv

LEMMA StartInv ==
    ASSUME Inv, TypeOK', NEW r \in Runs, Start(r)
    PROVE  Inv'
<1>1. /\ UNCHANGED <<round, version, saved, opened, temp, files, claims, kept>>
      /\ pc[r] = "idle" /\ pc'[r] = "config"
      /\ \A s \in Runs \ {r} : pc'[s] = pc[s] /\ session'[s] = session[s]
  BY DEF Start, GoTo, diskVars, Inv, TypeOK
<1>2. saved[r] = 0 /\ temp[r] = "none"
  <2>1. saved[r] \in Nat
    BY DEF Inv, TypeOK
  <2> QED BY <1>1, <2>1 DEF Inv, Progress, TempOwned, Saving
<1>3. Durable'
  BY <1>1 DEF Inv, Durable
<1>4. ASSUME NEW s \in Runs
      PROVE  Progress(s)' /\ TempOwned(s)' /\ Kept(s)' /\ Moved(s)' /\ Recorded(s)'
  <2>1. CASE s = r
    BY <1>1, <1>2, <2>1 DEF Inv, Progress, TempOwned, Kept, Moved, Recorded, Saving
  <2>2. CASE s # r
    BY <1>1, <2>2 DEF Inv, Progress, TempOwned, Kept, Moved, Recorded
  <2> QED BY <2>1, <2>2
<1> QED BY <1>3, <1>4 DEF Inv

LEMMA FileStepInv ==
    ASSUME Inv, TypeOK', NEW r \in Runs, FileStep(r)
    PROVE  Inv'
<1>1. /\ UNCHANGED <<session, round, version, saved, temp, claims, kept>>
      /\ \A s \in Runs \ {r} : pc'[s] = pc[s]
      /\ pc[r] \in Writing
  BY DEF FileStep, OpenFile, WriteFile, FileFails, GoTo, runVars, diskVars, Inv,
     TypeOK
<1>2. temp[r] = "none"
  BY <1>1 DEF Inv, TempOwned, Writing, Saving
<1>3. /\ Progress(r) /\ pc \in [Runs -> Working \cup Ended \cup {"idle"}]
      /\ round[r] \in Nat /\ version[r] \in Nat /\ saved[r] \in Nat
  BY RoundsAssumption DEF Inv, TypeOK, Rounds
<1>4. Progress(r)'
  <2>1. CASE OpenFile(r)
    BY <1>1, <1>3, <2>1 DEF OpenFile, runVars, Progress
  <2>2. CASE WriteFile(r)
    <3>1. pc'[r] = Then(pc[r])
      BY <1>3, <2>2 DEF WriteFile, GoTo
    <3> QED BY <1>1, <1>3, <3>1, ThenFacts DEF Progress, Writing
  <2>3. CASE FileFails(r)
    <3>1. pc'[r] \in {"error", "raised"}
      BY <1>3, <2>3, HandlerFacts DEF FileFails, GoTo
    <3> QED BY <1>1, <1>3, <3>1 DEF Progress
  <2> QED BY <2>1, <2>2, <2>3 DEF FileStep
<1>5. ASSUME NEW s \in Runs PROVE Progress(s)' /\ TempOwned(s)'
  BY <1>1, <1>2, <1>4 DEF Inv, Progress, TempOwned
<1>6. CASE OpenFile(r) \/ FileFails(r)
  <2>1. CASE OpenFile(r)
    <3>1. \A d \in Minutes, f \in File :
             files'[d][f] = files[d][f] \/ ~files'[d][f].whole
      <4> DEFINE c == [by |-> r, whole |-> FALSE]
      <4>1. c \in Content /\ ~c.whole /\ PutFile(r, c) /\ TypeOK
        BY <2>1 DEF OpenFile, Content, Inv
      <4> HIDE DEF c
      <4> QED BY <1>1, <4>1, PutFileFacts
    <3> QED BY <1>1, <1>2, <1>5, <3>1, FileFacts, QuietStep DEF Inv
  <2>2. CASE FileFails(r)
    <3>1. files' = files
      BY <2>2 DEF FileFails, diskVars
    <3> QED BY <1>1, <1>2, <1>5, <3>1, QuietStep DEF Inv
  <2> QED BY <1>6, <2>1, <2>2
<1>7. CASE WriteFile(r)
  <2>1. PICK whole \in BOOLEAN : PutFile(r, [by |-> r, whole |-> whole])
    BY <1>7 DEF WriteFile
  <2>2. [by |-> r, whole |-> whole] \in Content
    BY DEF Content
  <2>3. \A d \in Minutes, f \in File :
           files'[d][f] = IF d = session[r] /\ f = Target(r)
                          THEN [by |-> r, whole |-> whole] ELSE files[d][f]
    BY <1>1, <2>1, <2>2, PutFileFacts DEF Inv
  <2>4. ASSUME NEW n \in Rounds
        PROVE  /\ Target(r) = <<"agents", n>> => saved[r] >= 2 * n - 1
               /\ Target(r) = <<"host", n>> => saved[r] >= 2 * n
    <3>1. n \in Nat
      BY RoundsAssumption DEF Rounds
    <3>2. CASE pc[r] = "agentsFile"
      <4>1. Target(r) = <<"agents", round[r]>>
        BY <1>1, <3>2, TargetFacts DEF Inv
      <4> QED BY <1>3, <3>1, <3>2, <4>1 DEF Progress
    <3>3. CASE pc[r] = "hostFile"
      <4>1. Target(r) = <<"host", round[r]>>
        BY <1>1, <3>3, TargetFacts DEF Inv
      <4> QED BY <1>3, <3>1, <3>3, <4>1 DEF Progress
    <3>4. CASE pc[r] \notin {"agentsFile", "hostFile"}
      <4>1. Target(r) = <<pc[r], 0>>
        BY <1>1, <3>4, TargetFacts DEF Inv
      <4> QED BY <1>1, <3>4, <4>1 DEF Writing
    <3> QED BY <3>2, <3>3, <3>4
  <2>5. ASSUME NEW s \in Runs PROVE Recorded(s)'
    <3> SUFFICES ASSUME NEW d \in Minutes, NEW n \in Rounds
                 PROVE  LET agents == files'[d][<<"agents", n>>]
                            host == files'[d][<<"host", n>>]
                        IN /\ agents.by = s /\ agents.whole => saved[s] >= 2 * n - 1
                           /\ host.by = s /\ host.whole => saved[s] >= 2 * n
      BY <1>1 DEF Recorded
    <3>1. <<"agents", n>> \in File /\ <<"host", n>> \in File
      BY FileFacts
    <3>2. Recorded(s)
      BY DEF Inv
    <3> QED BY <2>3, <2>4, <3>1, <3>2 DEF Recorded
  <2>6. Durable' /\ \A s \in Runs : Kept(s)' /\ Moved(s)'
    <3>1. pc'[r] \notin Saving \/ temp'[r] # "moved"
      BY <1>1, <1>2
    <3> QED BY <1>1, <3>1 DEF Inv, Durable, Kept, Moved
  <2> QED BY <1>5, <2>5, <2>6 DEF Inv
<1> QED BY <1>6, <1>7 DEF FileStep

LEMMA SaveStepInv ==
    ASSUME Inv, TypeOK', NEW r \in Runs, SaveStep(r)
    PROVE  Inv'
<1>1. /\ UNCHANGED <<session, round, version, files>>
      /\ \A s \in Runs \ {r} : /\ pc'[s] = pc[s] /\ temp'[s] = temp[s]
                               /\ saved'[s] = saved[s]
      /\ pc[r] \in Saving
  BY DEF SaveStep, CreateTemp, FillTemp, ReplaceClaims, SyncDirectory, SaveFails,
     GoTo, runVars, diskVars, Inv, TypeOK
<1>2. /\ pc \in [Runs -> Working \cup Ended \cup {"idle"}]
      /\ temp \in [Runs -> {"none", "partial", "unsynced", "synced", "moved"}]
      /\ saved \in [Runs -> 0..(2 * MaxRounds)] /\ version[r] \in Nat
      /\ session[r] \in Minutes
      /\ \A s \in Runs : saved[s] \in Nat /\ session[s] \in Minutes
      /\ Durable /\ Progress(r) /\ round[r] \in Nat
      /\ claims \in [Minutes -> ClaimsText \cup {NoClaims}]
      /\ kept \in [Minutes -> SUBSET (ClaimsText \cup {NoClaims})]
  BY RoundsAssumption DEF Inv, TypeOK, Rounds
<1>3. CASE CreateTemp(r) \/ FillTemp(r)
  <2>1. /\ UNCHANGED <<session, round, version, saved, files, claims, kept, pc>>
        /\ temp'[r] \in {"partial", "synced"}
    BY <1>2, <1>3 DEF CreateTemp, FillTemp, runVars, diskVars
  <2>2. Durable' /\ \A s \in Runs : Kept(s)' /\ Moved(s)' /\ Recorded(s)'
    BY <1>1, <2>1, QuietStep
  <2>3. ASSUME NEW s \in Runs PROVE Progress(s)' /\ TempOwned(s)'
    BY <1>1, <2>1 DEF Inv, Progress, TempOwned
  <2> QED BY <2>2, <2>3 DEF Inv
<1>4. CASE ReplaceClaims(r)
  <2> DEFINE t == TempText(r)
  <2>1. /\ UNCHANGED <<pc, saved>>
        /\ temp[r] = "synced" /\ temp'[r] = "moved"
        /\ claims'[session[r]] = t /\ kept'[session[r]] = kept[session[r]] \cup {t}
        /\ \A d \in Minutes \ {session[r]} :
              claims'[d] = claims[d] /\ kept'[d] = kept[d]
    BY <1>2, <1>4 DEF ReplaceClaims, runVars, Durable
  <2>2. t.by = r /\ t.version = version[r] /\ t.data = "synced"
    BY <2>1 DEF TempText
  <2> HIDE DEF t
  <2>3. Durable'
    BY <1>1, <1>2, <2>1, <2>2 DEF Durable
  <2>4. ASSUME NEW s \in Runs PROVE Progress(s)' /\ TempOwned(s)' /\ Recorded(s)'
    BY <1>1, <2>1 DEF Inv, Progress, TempOwned, Recorded
  <2>5. ASSUME NEW s \in Runs PROVE Kept(s)'
    <3>1. Kept(s) /\ NotOlder(t, s, saved[s])
      BY <1>2, <2>2, NoRunAssumption DEF Inv, NotOlder, Progress
    <3> QED BY <1>1, <1>2, <2>1, <3>1 DEF Kept
  <2>6. ASSUME NEW s \in Runs PROVE Moved(s)'
    <3>1. Moved(s) /\ NotOlder(t, s, version[s])
      BY <1>2, <2>2, NoRunAssumption DEF Inv, NotOlder
    <3> QED BY <1>1, <1>2, <2>1, <3>1 DEF Moved
  <2> QED BY <2>3, <2>4, <2>5, <2>6 DEF Inv
<1>5. CASE SyncDirectory(r)
  <2>1. /\ claims' = claims /\ temp[r] = "moved" /\ temp'[r] = "none"
        /\ saved'[r] = version[r] /\ pc'[r] = Then(pc[r])
        /\ kept'[session[r]] = {claims[session[r]]}
        /\ \A d \in Minutes \ {session[r]} : kept'[d] = kept[d]
    BY <1>2, <1>5 DEF SyncDirectory, GoTo
  <2>2. pc'[r] \in {"agentsFile", "hostFile"}
    BY <1>1, <2>1, ThenFacts DEF Saving
  <2>3. Durable'
    <3>1. ASSUME NEW d \in Minutes
          PROVE  claims'[d] \in kept'[d] /\ kept'[d] \subseteq kept[d]
      BY <1>2, <2>1, <3>1 DEF Durable
    <3>2. \A s \in Runs : temp'[s] # "unsynced"
      BY <1>1, <1>2, <2>1 DEF Durable
    <3> QED BY <1>2, <3>1, <3>2 DEF Durable
  <2>4. Progress(r)'
    BY <1>1, <1>2, <2>1, ThenFacts DEF Progress, Saving
  <2>5. ASSUME NEW s \in Runs PROVE Progress(s)' /\ TempOwned(s)'
    BY <1>1, <2>1, <2>4 DEF Inv, Progress, TempOwned
  <2>6. ASSUME NEW s \in Runs PROVE Kept(s)'
    <3>1. Kept(s) /\ Moved(r)
      BY DEF Inv
    <3>2. CASE s = r
      BY <1>1, <1>2, <2>1, <3>1, <3>2 DEF Kept, Moved
    <3>3. CASE s # r
      <4>1. kept'[session[s]] \subseteq kept[session[s]]
        BY <1>2, <2>1 DEF Durable
      <4> QED BY <1>1, <3>1, <3>3, <4>1 DEF Kept
    <3> QED BY <3>2, <3>3
  <2>7. ASSUME NEW s \in Runs PROVE Moved(s)'
    BY <1>1, <2>1, <2>2 DEF Inv, Moved, Saving
  <2>8. ASSUME NEW s \in Runs PROVE Recorded(s)'
    <3>1. Recorded(s) /\ saved'[s] >= saved[s] /\ saved[s] \in Nat /\ saved'[s] \in Nat
      BY <1>1, <1>2, <2>1 DEF Inv, Progress
    <3>2. ASSUME NEW n \in Rounds
          PROVE  /\ saved[s] >= 2 * n - 1 => saved'[s] >= 2 * n - 1
                 /\ saved[s] >= 2 * n => saved'[s] >= 2 * n
      <4>1. n \in Nat
        BY RoundsAssumption DEF Rounds
      <4> QED BY <3>1, <4>1
    <3> QED BY <1>1, <3>1, <3>2 DEF Recorded
  <2> QED BY <2>3, <2>5, <2>6, <2>7, <2>8 DEF Inv
<1>6. CASE SaveFails(r)
  <2>1. /\ UNCHANGED <<session, round, version, saved, files, claims, kept>>
        /\ temp'[r] = "none" /\ pc'[r] \in {"error", "raised"}
    BY <1>2, <1>6, HandlerFacts DEF SaveFails, GoTo, AfterFailure, diskVars
  <2>2. Durable' /\ \A s \in Runs : Kept(s)' /\ Moved(s)' /\ Recorded(s)'
    BY <1>1, <2>1, QuietStep
  <2>3. ASSUME NEW s \in Runs PROVE Progress(s)' /\ TempOwned(s)'
    BY <1>1, <2>1 DEF Inv, Progress, TempOwned
  <2> QED BY <2>2, <2>3 DEF Inv
<1> QED BY <1>3, <1>4, <1>5, <1>6 DEF SaveStep

LEMMA CrashInv ==
    ASSUME Inv, TypeOK', NEW r \in Runs, Crash(r)
    PROVE  Inv'
<1>1. /\ UNCHANGED <<session, round, version, saved, temp, files, claims, kept>>
      /\ pc'[r] = "crashed"
      /\ \A s \in Runs \ {r} : pc'[s] = pc[s]
  BY DEF Crash, GoTo, diskVars, Inv, TypeOK
<1>2. Durable'
  BY <1>1 DEF Inv, Durable
<1>3. ASSUME NEW s \in Runs
      PROVE  Progress(s)' /\ TempOwned(s)' /\ Kept(s)' /\ Moved(s)' /\ Recorded(s)'
  BY <1>1 DEF Inv, Progress, TempOwned, Kept, Moved, Recorded, Saving
<1> QED BY <1>2, <1>3 DEF Inv

\* A loss of power leaves one of the texts it may leave, and none is torn.
LEMMA PowerLossFacts ==
    ASSUME Inv, PowerLoss, NEW d \in Minutes
    PROVE  claims'[d] \in kept[d] /\ kept'[d] = {claims'[d]}
<1>1. claims'[d] \in Found(d) /\ kept'[d] = {claims'[d]}
  BY DEF PowerLoss
<1>2. Found(d) = kept[d]
  BY DEF Found, Survivors, Inv, Durable
<1> QED BY <1>1, <1>2

LEMMA PowerLossInv ==
    ASSUME Inv, TypeOK', PowerLoss
    PROVE  Inv'
<1>1. /\ UNCHANGED <<session, round, version, saved, temp, files>>
      /\ \A s \in Runs : pc'[s] = IF pc[s] \in Working THEN "crashed" ELSE pc[s]
  BY DEF PowerLoss
<1>2. Durable'
  BY <1>1, PowerLossFacts DEF Inv, Durable
<1>3. ASSUME NEW s \in Runs
      PROVE  Progress(s)' /\ TempOwned(s)' /\ Moved(s)' /\ Recorded(s)'
  <2>1. CASE pc[s] \in Working
    <3>1. pc'[s] = "crashed"
      BY <1>1, <2>1
    <3> QED BY <1>1, <3>1 DEF Inv, Progress, TempOwned, Moved, Recorded, Saving
  <2>2. CASE pc[s] \notin Working
    <3>1. pc'[s] = pc[s] /\ pc[s] \notin Saving
      BY <1>1, <2>2 DEF Working
    <3> QED BY <1>1, <3>1 DEF Inv, Progress, TempOwned, Moved, Recorded
  <2> QED BY <2>1, <2>2
<1>4. ASSUME NEW s \in Runs PROVE Kept(s)'
  <2>1. session[s] \in Minutes /\ Kept(s)
    BY DEF Inv, TypeOK
  <2> QED BY <1>1, <2>1, PowerLossFacts DEF Kept
<1> QED BY <1>2, <1>3, <1>4 DEF Inv

LEMMA StepInv == Inv /\ [Next]_vars => Inv'
<1> SUFFICES ASSUME Inv, [Next]_vars PROVE Inv'
  OBVIOUS
<1>0. TypeOK'
  BY StepTypes DEF Inv
<1>1. CASE UNCHANGED <<runVars, temp, diskVars>>
  <2>1. Durable'
    BY <1>1 DEF Inv, Durable, diskVars
  <2>2. ASSUME NEW s \in Runs
        PROVE  Progress(s)' /\ TempOwned(s)' /\ Kept(s)' /\ Moved(s)' /\ Recorded(s)'
    BY <1>1 DEF Inv, Progress, TempOwned, Kept, Moved, Recorded, runVars, diskVars
  <2> QED BY <1>0, <2>1, <2>2 DEF Inv
<1>2. CASE TimePasses \/ UNCHANGED vars
  BY <1>1, <1>2 DEF TimePasses, vars
<1>3. ASSUME NEW r \in Runs,
             Start(r) \/ EngineStep(r) \/ FileStep(r) \/ SaveStep(r) \/ Crash(r)
      PROVE  Inv'
  BY <1>0, <1>3, StartInv, EngineStepInv, FileStepInv, SaveStepInv, CrashInv
<1>4. CASE PowerLoss
  BY <1>0, <1>4, PowerLossInv
<1> QED BY <1>2, <1>3, <1>4 DEF Next, Finished

THEOREM ArchiveInv == Spec => []Inv
BY InitInv, StepInv, PTL DEF Spec

\* A reader never finds a torn claims.md.
THEOREM NeverTorn == Spec => []ClaimsNeverTorn
<1>1. Inv => ClaimsNeverTorn
  BY DEF Inv, Durable, ClaimsNeverTorn
<1> QED BY <1>1, ArchiveInv, PTL

\* What a save() that returned has written is found for ever, or something
\* newer.
THEOREM SaveIsDurable == Spec => []SavedSurvives
<1>1. Inv => SavedSurvives
  <2> SUFFICES ASSUME Inv, NEW r \in Runs, saved[r] > 0
               PROVE  /\ claims[session[r]].by # NoRun
                      /\ claims[session[r]].by = r =>
                            claims[session[r]].version >= saved[r]
    BY DEF SavedSurvives
  <2>1. session[r] \in Minutes
    BY DEF Inv, TypeOK
  <2> QED BY <2>1 DEF Inv, Durable, Kept, NotOlder
<1> QED BY <1>1, ArchiveInv, PTL

\* No round file is ahead of claims.md.
THEOREM RoundsBehindClaims == Spec => []RoundsFollowClaims
<1>1. Inv => RoundsFollowClaims
  <2> SUFFICES ASSUME Inv, NEW r \in Runs, NEW n \in Rounds,
                      claims[session[r]].by = r
               PROVE  LET found == claims[session[r]]
                      IN /\ Written(r, <<"agents", n>>) => found.version >= 2 * n - 1
                         /\ Written(r, <<"host", n>>) => found.version >= 2 * n
    BY DEF RoundsFollowClaims
  <2> DEFINE found == claims[session[r]]
  <2>1. /\ session[r] \in Minutes /\ saved[r] \in Nat /\ n \in Nat /\ n > 0
        /\ found.version \in Nat
    BY RoundsAssumption, NoRunAssumption DEF Inv, TypeOK, Rounds, ClaimsText, NoClaims
  <2>2. saved[r] > 0 => found.version >= saved[r]
    BY <2>1 DEF Inv, Durable, Kept, NotOlder
  <2>3. /\ Written(r, <<"agents", n>>) => saved[r] >= 2 * n - 1
        /\ Written(r, <<"host", n>>) => saved[r] >= 2 * n
    BY <2>1 DEF Inv, Recorded, Written
  <2> HIDE DEF found
  <2> QED BY <2>1, <2>2, <2>3 DEF found
<1> QED BY <1>1, ArchiveInv, PTL

-----------------------------------------------------------------------------
(* A run that has its directory for itself, before any loss of power. *)

Stopped == {"error", "failed", "raised", "crashed"}

\* Places where what is in memory has been saved, and where the agents of the
\* round have answered.
Settled(r) ==
    /\ opened[r] => pc[r] \in Writing
    /\ pc[r] \in {"agents", "agentsFile", "judge", "hostFile", "room",
                  "summary", "converged", "limit"} => saved[r] = version[r]
    /\ pc[r] \in {"saveAgents", "agentsFile", "judge", "saveHost", "hostFile",
                  "room", "summary", "converged", "limit"} =>
          version[r] >= 2 * round[r] - 1

\* Nothing has been written to directory d.
Clean(d) ==
    /\ claims[d] = NoClaims
    /\ \A f \in File : files[d][f] = Absent

Unused(d) == \A s \in Runs : Began(s) => session[s] # d

\* claims.md is what the run has saved last, or was about to.
SoloClaims(r) ==
    LET found == claims[session[r]]
    IN /\ found.version \in {saved[r], version[r]}
       /\ found.version > 0 => found.by = r
       /\ pc[r] \in Saving /\ temp[r] = "moved" => found.version = version[r]
       /\ pc[r] \in Stopped \/ (pc[r] \in Saving /\ temp[r] = "moved")
             \/ found.version = saved[r]

\* The answers of a round are archived before its judgment.
SoloAnswers(r) ==
    \A n \in Rounds :
        \/ version[r] >= 2 * n
        \/ n < round[r]
        \/ n = round[r] /\ pc[r] \in {"judge", "saveHost", "hostFile", "room",
                                    "summary", "converged", "limit"}
        => Written(r, <<"agents", n>>)

SoloFiles(r) ==
    /\ opened[r] => files[session[r]][Target(r)] = [by |-> r, whole |-> FALSE]
    /\ pc[r] \notin {"config", "raised", "crashed"} => Written(r, <<"config", 0>>)
    /\ pc[r] \in {"agents", "saveAgents", "agentsFile", "judge", "saveHost",
                  "hostFile", "room", "summary", "converged", "limit"} =>
          Written(r, <<"context", 0>>)
    /\ pc[r] \notin Stopped => files[session[r]][<<"error", 0>>] = Absent
    /\ pc[r] = "failed" => Written(r, <<"error", 0>>)
    /\ pc[r] \notin Stopped \cup {"summary", "converged"} =>
          files[session[r]][<<"summary", 0>>] = Absent
    /\ pc[r] = "converged" /\ ~SkipSummary => Written(r, <<"summary", 0>>)

Solo(r) == SoloClaims(r) /\ SoloAnswers(r) /\ SoloFiles(r)

SoloInv ==
    /\ \A r \in Runs : Settled(r)
    /\ ~lost => /\ \A d \in Minutes : Unused(d) => Clean(d)
                /\ \A r \in Runs : Alone(r) => Solo(r)

LEMMA InitSolo == Init => SoloInv
BY DEF Init, SoloInv, Settled, Began, Alone, Clean

\* A step of run s.
RunStep(s) ==
    Start(s) \/ EngineStep(s) \/ FileStep(s) \/ SaveStep(s) \/ Crash(s)

\* What a step of run s leaves as it is.
LEMMA RunStepFrame ==
    ASSUME Inv, Inv', NEW s \in Runs, RunStep(s)
    PROVE  /\ lost' = lost
           /\ \A r \in Runs \ {s} :
                 UNCHANGED <<pc[r], session[r], round[r], version[r], saved[r],
                             opened[r], temp[r]>>
           /\ pc'[s] # "idle"
           /\ \A d \in Minutes \ {session[s]} :
                 /\ claims'[d] = claims[d]
                 /\ \A f \in File : files'[d][f] = files[d][f]
           /\ pc[s] = "idle" => UNCHANGED <<claims, files>>
           /\ pc[s] # "idle" => session' = session
<1>0. TypeOK
  BY DEF Inv
<1>1. CASE Start(s)
  BY <1>0, <1>1 DEF Start, GoTo, diskVars, TypeOK
<1>2. CASE EngineStep(s)
  <2>1. pc[s] \in Thinking \cup {"room"}
    BY <1>2 DEF EngineStep, Prepare, Merge, SkipJudgment, Judge, NextRound,
                LeaveRoom, StepFails, Thinking
  <2>2. /\ UNCHANGED <<session, saved, opened, temp, files, claims, lost>>
        /\ \A r \in Runs \ {s} : UNCHANGED <<pc[r], round[r], version[r]>>
    BY <1>0, <1>2
       DEF EngineStep, Prepare, Merge, SkipJudgment, Judge, NextRound,
           LeaveRoom, StepFails, GoTo, diskVars, TypeOK
  <2>3. pc'[s] # "idle"
    BY <1>0, <1>2, ThenFacts, HandlerFacts
       DEF EngineStep, Prepare, Merge, SkipJudgment, Judge, NextRound,
           LeaveRoom, StepFails, GoTo, TypeOK
  <2> QED BY <2>1, <2>2, <2>3 DEF Thinking
<1>3. CASE FileStep(s)
  <2>1. pc[s] \in Writing /\ UNCHANGED <<session, round, version, saved, temp, claims, lost>>
    BY <1>3 DEF FileStep, OpenFile, WriteFile, FileFails, runVars, diskVars
  <2>2. \A r \in Runs \ {s} : UNCHANGED <<pc[r], opened[r]>>
    BY <1>0, <1>3 DEF FileStep, OpenFile, WriteFile, FileFails, GoTo, runVars, TypeOK
  <2>3. pc'[s] # "idle"
    BY <1>0, <1>3, ThenFacts, HandlerFacts
       DEF FileStep, OpenFile, WriteFile, FileFails, GoTo, runVars, Writing, TypeOK
  <2>4. \A d \in Minutes \ {session[s]} : \A f \in File : files'[d][f] = files[d][f]
    <3>1. CASE FileFails(s)
      BY <3>1 DEF FileFails, diskVars
    <3>2. CASE OpenFile(s) \/ WriteFile(s)
      <4>1. PICK whole \in BOOLEAN : PutFile(s, [by |-> s, whole |-> whole])
        BY <3>2 DEF OpenFile, WriteFile
      <4> QED BY <1>0, <2>1, <4>1, PutFileFacts DEF Content
    <3> QED BY <1>3, <3>1, <3>2 DEF FileStep
  <2> QED BY <2>1, <2>2, <2>3, <2>4 DEF Writing
<1>4. CASE SaveStep(s)
  <2>1. pc[s] \in Saving /\ UNCHANGED <<session, round, version, opened, files, lost>>
    BY <1>4 DEF SaveStep, CreateTemp, FillTemp, ReplaceClaims, SyncDirectory,
                SaveFails, runVars, diskVars
  <2>2. \A r \in Runs \ {s} : UNCHANGED <<pc[r], saved[r], temp[r]>>
    BY <1>0, <1>4 DEF SaveStep, CreateTemp, FillTemp, ReplaceClaims,
                      SyncDirectory, SaveFails, GoTo, runVars, TypeOK
  <2>3. pc'[s] # "idle"
    BY <1>0, <1>4, <2>1, ThenFacts, HandlerFacts
       DEF SaveStep, CreateTemp, FillTemp, ReplaceClaims, SyncDirectory,
           SaveFails, GoTo, runVars, Saving, TypeOK
  <2>4. \A d \in Minutes \ {session[s]} : claims'[d] = claims[d]
    BY <1>0, <1>4 DEF SaveStep, CreateTemp, FillTemp, ReplaceClaims,
                      SyncDirectory, SaveFails, diskVars, TypeOK
  <2> QED BY <2>1, <2>2, <2>3, <2>4 DEF Saving
<1>5. CASE Crash(s)
  BY <1>0, <1>5 DEF Crash, GoTo, Working, diskVars, TypeOK
<1> QED BY <1>1, <1>2, <1>3, <1>4, <1>5 DEF RunStep

\* What the others do is not seen in the directory of a run that is alone.
LEMMA OthersKeepSolo ==
    ASSUME Inv, Inv', NEW s \in Runs, RunStep(s), NEW r \in Runs \ {s},
           Settled(r), Alone(r)', Alone(r) => Solo(r)
    PROVE  Solo(r)'
<1>1. /\ UNCHANGED <<pc[r], session[r], round[r], version[r], saved[r],
                     opened[r], temp[r]>>
      /\ pc'[s] # "idle" /\ session[r] \in Minutes
  BY RunStepFrame DEF Inv, TypeOK
<1>2. session'[s] # session[r] /\ Began(r)
  BY <1>1 DEF Alone, Began
<1>3. Alone(r)
  <2> SUFFICES ASSUME NEW q \in Runs \ {r}, Began(q) PROVE session[q] # session[r]
    BY <1>2 DEF Alone
  <2>1. pc'[q] # "idle" /\ session'[q] = session[q]
    BY RunStepFrame DEF Began
  <2> QED BY <1>1, <2>1 DEF Alone, Began
<1>4. /\ claims'[session[r]] = claims[session[r]]
      /\ \A f \in File : files'[session[r]][f] = files[session[r]][f]
  <2>1. CASE pc[s] = "idle"
    BY <2>1, RunStepFrame
  <2>2. CASE pc[s] # "idle"
    <3>1. session[s] # session[r]
      BY <1>2, <2>2, RunStepFrame
    <3> QED BY <1>1, <3>1, RunStepFrame
  <2> QED BY <2>1, <2>2
<1>5. Solo(r)
  BY <1>3
<1>6. SoloClaims(r)'
  BY <1>1, <1>4, <1>5 DEF Solo, SoloClaims
<1>7. SoloAnswers(r)'
  BY <1>1, <1>4, <1>5, FileFacts DEF Solo, SoloAnswers, Written
<1>8. SoloFiles(r)'
  <2>1. Target(r)' = Target(r)
    BY <1>1 DEF Target
  <2>2. opened[r] => Target(r) \in File
    BY TargetFacts DEF Inv, Settled
  <2> QED BY <1>1, <1>4, <1>5, <2>1, <2>2, FileFacts DEF Solo, SoloFiles, Written
<1> QED BY <1>6, <1>7, <1>8 DEF Solo

\* A run begins in a directory that nobody has used, or is not alone.
LEMMA StartSolo ==
    ASSUME Inv, Inv', NEW r \in Runs, Start(r), Settled(r), Alone(r)',
           \A d \in Minutes : Unused(d) => Clean(d)
    PROVE  Solo(r)'
<1>1. /\ pc[r] = "idle" /\ pc'[r] = "config" /\ session'[r] = minute
      /\ UNCHANGED <<round, version, saved, opened, temp, files, claims>>
      /\ \A s \in Runs \ {r} : pc'[s] = pc[s] /\ session'[s] = session[s]
  BY DEF Start, GoTo, diskVars, Inv, TypeOK
<1>2. Clean(minute)
  <2>1. minute \in Minutes
    BY DEF Inv, TypeOK
  <2>2. Unused(minute)
    BY <1>1 DEF Unused, Alone, Began
  <2> QED BY <2>1, <2>2
<1>3. version[r] = 0 /\ saved[r] = 0 /\ round[r] = 1 /\ temp[r] = "none"
  <2>1. saved[r] \in Nat
    BY DEF Inv, TypeOK
  <2> QED BY <1>1, <2>1 DEF Inv, Progress, TempOwned, Saving
<1>4. ~opened'[r]
  BY <1>1 DEF Settled, Writing
<1>5. SoloClaims(r)'
  BY <1>1, <1>2, <1>3 DEF SoloClaims, Clean, NoClaims, Saving
<1>6. SoloAnswers(r)'
  BY <1>1, <1>3 DEF SoloAnswers, Rounds
<1>7. SoloFiles(r)'
  BY <1>1, <1>2, <1>4, FileFacts DEF SoloFiles, Clean, Stopped
<1> QED BY <1>5, <1>6, <1>7 DEF Solo

\* The steps of a run that is alone: what they do to memory ...
LEMMA EngineStepSolo ==
    ASSUME Inv, Inv', NEW r \in Runs, EngineStep(r), Settled(r)
    PROVE  Settled(r)' /\ (Solo(r) => Solo(r)')
<1>1. /\ UNCHANGED <<session, saved, opened, temp, files, claims>>
      /\ pc[r] \in Thinking \cup {"room"}
  BY DEF EngineStep, Prepare, Merge, SkipJudgment, Judge, NextRound, LeaveRoom,
     StepFails, Thinking, diskVars
<1>2. temp[r] = "none" /\ ~opened[r]
  BY <1>1 DEF Inv, TempOwned, Settled, Saving, Thinking, Writing
<1>3. /\ TypeOK /\ TypeOK' /\ Progress(r) /\ Progress(r)'
      /\ round[r] \in Nat /\ version[r] \in Nat /\ saved[r] \in Nat
      /\ round'[r] \in Nat /\ version'[r] \in Nat /\ Rounds \subseteq Nat
  BY RoundsAssumption DEF Inv, TypeOK, Rounds
<1>4. \/ /\ pc[r] = "audit" /\ pc'[r] = "prepare"
         /\ UNCHANGED <<round, version>>
      \/ /\ pc[r] = "prepare" /\ pc'[r] = "context"
         /\ UNCHANGED <<round, version>>
      \/ /\ pc[r] = "agents" /\ pc'[r] = "saveAgents"
         /\ version'[r] = 2 * round[r] - 1 /\ round' = round
      \/ /\ pc[r] = "judge" /\ pc'[r] = "room"
         /\ UNCHANGED <<round, version>>
      \/ /\ pc[r] = "judge" /\ pc'[r] = "saveHost"
         /\ version'[r] = 2 * round[r] /\ round' = round
      \/ /\ pc[r] = "room" /\ pc'[r] = "agents"
         /\ round'[r] = round[r] + 1 /\ version' = version
      \/ /\ pc[r] = "room" /\ pc'[r] \in {"summary", "limit"}
         /\ UNCHANGED <<round, version>>
      \/ /\ pc[r] = "room" /\ pc'[r] = "converged" /\ SkipSummary
         /\ UNCHANGED <<round, version>>
      \/ /\ pc[r] \in Thinking /\ pc'[r] = Handler(pc[r])
         /\ UNCHANGED <<round, version>>
  BY <1>3, ThenFacts
     DEF EngineStep, Prepare, Merge, SkipJudgment, Judge, NextRound, LeaveRoom,
         StepFails, GoTo, TypeOK
<1>5. pc'[r] = Handler(pc[r]) =>
         /\ pc'[r] \in {"error", "raised"}
         /\ pc[r] \notin {"config", "audit", "error"} => pc'[r] = "error"
  BY HandlerFacts DEF Handler
<1>6. Settled(r)'
  <2>1. CASE pc'[r] = Handler(pc[r])
    BY <1>1, <1>2, <1>5, <2>1 DEF Settled
  <2>2. CASE pc'[r] # Handler(pc[r]) /\ pc[r] \in {"agents", "room"}
    BY <1>1, <1>2, <1>3, <1>4, <2>2 DEF Settled
  <2>3. CASE pc'[r] # Handler(pc[r]) /\ pc[r] \in {"audit", "prepare", "judge"}
    BY <1>1, <1>2, <1>3, <1>4, <2>3 DEF Settled
  <2> QED BY <1>1, <2>1, <2>2, <2>3 DEF Thinking
<1>7. Solo(r) => SoloClaims(r)'
  BY <1>1, <1>2, <1>3, <1>4, <1>5 DEF Solo, SoloClaims, Progress, Thinking, Saving, Stopped
<1>8. Solo(r) => SoloAnswers(r)'
  <2>1. ASSUME Solo(r), NEW n \in Rounds,
               \/ version'[r] >= 2 * n
               \/ n < round'[r]
               \/ n = round'[r] /\ pc'[r] \in {"judge", "saveHost", "hostFile",
                                 "room", "summary", "converged", "limit"}
        PROVE  Written(r, <<"agents", n>>)
    <3>0. n \in Nat
      BY <1>3
    <3>1. \/ version[r] >= 2 * n
          \/ n < round[r]
          \/ n = round[r] /\ pc[r] \in {"judge", "room"}
      BY <1>3, <1>4, <1>5, <2>1, <3>0 DEF Thinking
    <3> QED BY <2>1, <3>1 DEF Solo, SoloAnswers
  <2> QED BY <1>1, <2>1 DEF SoloAnswers, Written
<1>9. Solo(r) => SoloFiles(r)'
  BY <1>1, <1>2, <1>4, <1>5 DEF Solo, SoloFiles, Written, Thinking, Stopped
<1> QED BY <1>6, <1>7, <1>8, <1>9 DEF Solo

\* ... to claims.md ...
LEMMA SaveStepSolo ==
    ASSUME Inv, Inv', NEW r \in Runs, SaveStep(r), Settled(r)
    PROVE  Settled(r)' /\ (Solo(r) => Solo(r)')
<1>1. /\ UNCHANGED <<session, round, version, opened, files>>
      /\ pc[r] \in Saving
  BY DEF SaveStep, CreateTemp, FillTemp, ReplaceClaims, SyncDirectory, SaveFails,
     runVars, diskVars
<1>2. ~opened[r]
  BY <1>1 DEF Settled, Saving, Writing
<1>3. /\ TypeOK /\ TypeOK' /\ Progress(r) /\ Progress(r)'
      /\ round[r] \in Nat /\ version[r] \in Nat /\ saved[r] \in Nat
      /\ session[r] \in Minutes /\ Rounds \subseteq Nat
  BY RoundsAssumption DEF Inv, TypeOK, Rounds
<1>4. /\ claims'[session[r]].version \in {claims[session[r]].version, version[r]}
      /\ \/ claims'[session[r]] = claims[session[r]]
         \/ claims'[session[r]].by = r
  <2>1. CASE ReplaceClaims(r)
    <3>1. claims'[session[r]] = TempText(r)
      BY <1>3, <2>1 DEF ReplaceClaims, TypeOK
    <3> QED BY <3>1 DEF TempText
  <2>2. CASE ~ReplaceClaims(r)
    BY <2>2 DEF SaveStep, CreateTemp, FillTemp, SyncDirectory, SaveFails, diskVars
  <2> QED BY <2>1, <2>2
<1>5. \/ /\ pc'[r] = pc[r] /\ temp'[r] # "moved" /\ temp[r] # "moved"
         /\ claims' = claims /\ saved' = saved
      \/ /\ pc'[r] = pc[r] /\ temp'[r] = "moved"
         /\ claims'[session[r]].version = version[r] /\ saved' = saved
      \/ /\ pc'[r] = Then(pc[r]) /\ temp[r] = "moved"
         /\ claims' = claims /\ saved'[r] = version[r]
      \/ /\ pc'[r] = "error" /\ claims' = claims /\ saved' = saved
  <2>1. CASE CreateTemp(r) \/ FillTemp(r)
    BY <1>3, <2>1 DEF CreateTemp, FillTemp, runVars, diskVars, TypeOK
  <2>2. CASE ReplaceClaims(r)
    <3>1. claims'[session[r]] = TempText(r)
      BY <1>3, <2>2 DEF ReplaceClaims, TypeOK
    <3> QED BY <1>3, <2>2, <3>1 DEF ReplaceClaims, TempText, runVars, TypeOK
  <2>3. CASE SyncDirectory(r)
    BY <1>3, <2>3 DEF SyncDirectory, GoTo, TypeOK
  <2>4. CASE SaveFails(r)
    BY <1>1, <1>3, <2>4 DEF SaveFails, Handler, GoTo, diskVars, Saving, TypeOK
  <2> QED BY <2>1, <2>2, <2>3, <2>4 DEF SaveStep
<1>6. \/ pc[r] = "saveAgents" /\ Then(pc[r]) = "agentsFile"
      \/ pc[r] = "saveHost" /\ Then(pc[r]) = "hostFile"
  BY <1>1, ThenFacts DEF Saving
<1>7. Settled(r)'
  BY <1>1, <1>2, <1>3, <1>5, <1>6 DEF Settled, Progress
<1>8. Solo(r) => SoloClaims(r)'
  BY <1>1, <1>3, <1>4, <1>5, <1>6 DEF Solo, SoloClaims, Saving, Stopped
<1>9. Solo(r) => SoloAnswers(r)'
  BY <1>1, <1>3, <1>5, <1>6 DEF Solo, SoloAnswers, Written
<1>10. Solo(r) => SoloFiles(r)'
  BY <1>1, <1>2, <1>5, <1>6 DEF Solo, SoloFiles, Written, Stopped
<1> QED BY <1>7, <1>8, <1>9, <1>10 DEF Solo

\* ... and to the other files.
LEMMA FileStepSolo ==
    ASSUME Inv, Inv', NEW r \in Runs, FileStep(r), Settled(r)
    PROVE  Settled(r)' /\ (Solo(r) => Solo(r)')
<1>1. /\ UNCHANGED <<session, round, version, saved, temp, claims>>
      /\ pc[r] \in Writing
  BY DEF FileStep, OpenFile, WriteFile, FileFails, runVars, diskVars
<1>2. /\ TypeOK /\ TypeOK' /\ Progress(r) /\ Progress(r)'
      /\ round[r] \in Nat /\ version[r] \in Nat /\ saved[r] \in Nat
      /\ session[r] \in Minutes /\ Rounds \subseteq Nat
      /\ round[r] \in Rounds
  BY RoundsAssumption DEF Inv, TypeOK, Rounds
<1>3. temp[r] = "none"
  BY <1>1 DEF Inv, TempOwned, Saving, Writing
<1>4. /\ Target(r) \in File
      /\ pc[r] = "agentsFile" => Target(r) = <<"agents", round[r]>>
      /\ pc[r] = "hostFile" => Target(r) = <<"host", round[r]>>
      /\ pc[r] \notin {"agentsFile", "hostFile"} => Target(r) = <<pc[r], 0>>
  BY <1>1, <1>2, TargetFacts
<1>5. /\ \/ /\ pc'[r] = pc[r] /\ opened'[r]
            /\ files'[session[r]][Target(r)] = [by |-> r, whole |-> FALSE]
         \/ /\ pc'[r] = Then(pc[r]) /\ ~opened'[r]
            /\ Solo(r) =>
                  files'[session[r]][Target(r)] = [by |-> r, whole |-> TRUE]
         \/ /\ pc'[r] = Handler(pc[r]) /\ ~opened'[r]
            /\ files' = files
      /\ \A f \in File : f # Target(r) =>
            files'[session[r]][f] = files[session[r]][f]
  <2>1. CASE OpenFile(r)
    <3>1. [by |-> r, whole |-> FALSE] \in Content
      BY DEF Content
    <3> QED BY <1>1, <1>2, <1>4, <2>1, <3>1, PutFileFacts DEF OpenFile, runVars, TypeOK
  <2>2. CASE WriteFile(r)
    <3>1. PICK whole \in BOOLEAN :
             /\ files[session[r]][Target(r)].whole \/ whole
             /\ PutFile(r, [by |-> r, whole |-> whole])
      BY <2>2 DEF WriteFile
    <3>2. [by |-> r, whole |-> whole] \in Content
      BY DEF Content
    <3>3. Solo(r) => whole = TRUE
      BY <2>2, <3>1 DEF WriteFile, Solo, SoloFiles
    <3>4. pc'[r] = Then(pc[r]) /\ ~opened'[r]
      BY <1>2, <2>2 DEF WriteFile, GoTo, TypeOK
    <3>5. \A f \in File :
             files'[session[r]][f] = IF f = Target(r) THEN [by |-> r, whole |-> whole]
                                     ELSE files[session[r]][f]
      BY <1>1, <1>2, <3>1, <3>2, PutFileFacts
    <3>6. files'[session[r]][Target(r)] = [by |-> r, whole |-> whole]
      BY <1>4, <3>5
    <3> QED BY <1>1, <3>3, <3>4, <3>5, <3>6
  <2>3. CASE FileFails(r)
    BY <1>2, <2>3 DEF FileFails, GoTo, diskVars, TypeOK
  <2> QED BY <2>1, <2>2, <2>3 DEF FileStep
<1>6. /\ Then("config") = "audit" /\ Then("context") = "agents"
      /\ Then("agentsFile") = "judge" /\ Then("hostFile") = "room"
      /\ Then("summary") = "converged" /\ Then("error") = "failed"
      /\ Handler("config") = "raised" /\ Handler("error") = "raised"
      /\ \A p \in {"context", "agentsFile", "hostFile", "summary"} :
            Handler(p) = "error"
  BY ThenFacts DEF Handler
<1>7. Settled(r)'
  <2>0. CASE pc[r] = "context"
    <3>1. version[r] = 0 /\ saved[r] = 0
      BY <1>2, <2>0 DEF Progress
    <3> QED BY <1>1, <1>5, <1>6, <2>0, <3>1 DEF Settled, Writing
  <2>1. CASE pc[r] \in {"config", "error"}
    BY <1>1, <1>5, <1>6, <2>1 DEF Settled, Writing
  <2>2. CASE pc[r] \in {"agentsFile", "hostFile", "summary"}
    BY <1>1, <1>2, <1>5, <1>6, <2>2 DEF Settled, Progress, Writing
  <2> QED BY <1>1, <2>0, <2>1, <2>2 DEF Writing
<1>8. Solo(r) => SoloClaims(r)'
  BY <1>1, <1>3, <1>5, <1>6 DEF Solo, SoloClaims, Saving, Stopped, Writing
<1>9. Solo(r) => SoloAnswers(r)'
  <2>1. ASSUME Solo(r), NEW n \in Rounds,
               \/ version[r] >= 2 * n
               \/ n < round[r]
               \/ n = round[r] /\ pc'[r] \in {"judge", "saveHost", "hostFile",
                                 "room", "summary", "converged", "limit"}
        PROVE  Written(r, <<"agents", n>>)'
    <3>0. n \in Nat /\ <<"agents", n>> \in File
      BY <1>2, FileFacts
    <3>1. CASE Target(r) = <<"agents", n>>
      <4>1. pc[r] = "agentsFile" /\ n = round[r]
        BY <1>1, <1>4, <3>1 DEF Writing
      <4>2. version[r] = 2 * n - 1
        BY <1>2, <4>1 DEF Progress
      <4>3. pc'[r] = "judge"
        BY <1>2, <1>5, <1>6, <2>1, <3>0, <4>1, <4>2
      <4> QED BY <1>1, <1>5, <1>6, <2>1, <3>1, <4>1, <4>3 DEF Written
    <3>2. CASE Target(r) # <<"agents", n>>
      <4>1. \/ version[r] >= 2 * n
            \/ n < round[r]
            \/ n = round[r] /\ pc[r] \in {"judge", "saveHost", "hostFile",
                                 "room", "summary", "converged", "limit"}
        BY <1>1, <1>4, <1>5, <1>6, <2>1, <3>2 DEF Writing
      <4>2. Written(r, <<"agents", n>>)
        BY <2>1, <4>1 DEF Solo, SoloAnswers
      <4> QED BY <1>1, <1>5, <3>0, <3>2, <4>2 DEF Written
    <3> QED BY <3>1, <3>2
  <2> QED BY <1>1, <2>1 DEF SoloAnswers
<1>10. Solo(r) => SoloFiles(r)'
  <2>1. Target(r)' = Target(r) \/ ~opened'[r]
    BY <1>1, <1>5 DEF Target
  <2>2. \A name \in {"config", "context", "summary", "error"} :
           /\ pc[r] # name =>
                 files'[session[r]][<<name, 0>>] = files[session[r]][<<name, 0>>]
           /\ pc[r] = name => Target(r) = <<name, 0>>
    BY <1>4, <1>5, FileFacts
  <2> QED BY <1>1, <1>5, <1>6, <2>1, <2>2 DEF Solo, SoloFiles, Written, Stopped, Writing
<1> QED BY <1>7, <1>8, <1>9, <1>10 DEF Solo

\* Any step of a run.
LEMMA OwnStepSolo ==
    ASSUME Inv, Inv', SoloInv, NEW r \in Runs, RunStep(r)
    PROVE  /\ Settled(r)'
           /\ ~lost /\ Alone(r)' => Solo(r)'
<1>0. Settled(r)
  BY DEF SoloInv
<1>1. CASE Start(r)
  <2>1. ~lost /\ Alone(r)' => Solo(r)'
    BY <1>0, <1>1, StartSolo DEF SoloInv
  <2>2. pc'[r] = "config" /\ UNCHANGED opened /\ ~opened[r]
    BY <1>0, <1>1 DEF Start, GoTo, Inv, TypeOK, Settled, Writing
  <2> QED BY <2>1, <2>2 DEF Settled
<1>2. CASE ~Start(r)
  <2>1. Settled(r)' /\ (Solo(r) => Solo(r)')
    <3>1. CASE Crash(r)
      BY <1>0, <3>1 DEF Crash, GoTo, diskVars, Inv, TypeOK, Progress, Settled, Solo,
         SoloClaims, SoloAnswers, SoloFiles, Stopped, Saving, Written
    <3> QED BY <1>0, <1>2, <3>1, EngineStepSolo, FileStepSolo, SaveStepSolo DEF RunStep
  <2>2. pc[r] # "idle"
    BY <1>2 DEF RunStep, EngineStep, Prepare, Merge, SkipJudgment, Judge, NextRound,
       LeaveRoom, StepFails, FileStep, OpenFile, WriteFile, FileFails, SaveStep,
       CreateTemp, FillTemp, ReplaceClaims, SyncDirectory, SaveFails, Crash,
       Working, Writing, Saving, Thinking
  <2>3. ASSUME Alone(r)' PROVE Alone(r)
    <3>1. \A s \in Runs \ {r} : pc'[s] = pc[s] /\ session'[s] = session[s]
      BY RunStepFrame
    <3>2. session' = session
      BY <2>2, RunStepFrame
    <3> QED BY <2>2, <2>3, <3>1, <3>2 DEF Alone, Began
  <2> QED BY <2>1, <2>3 DEF SoloInv
<1> QED BY <1>1, <1>2

\* A directory that nobody uses stays as it is.
LEMMA UnusedStaysClean ==
    ASSUME Inv, Inv', NEW s \in Runs, RunStep(s), NEW d \in Minutes,
           Unused(d)', Unused(d) => Clean(d)
    PROVE  Clean(d)'
<1>1. pc'[s] # "idle" /\ \A r \in Runs \ {s} : pc'[r] = pc[r] /\ session'[r] = session[r]
  BY RunStepFrame
<1>2. session'[s] # d
  BY <1>1 DEF Unused, Began
<1>3. pc[s] # "idle" => session[s] # d
  BY <1>2, RunStepFrame
<1>4. Unused(d)
  BY <1>1, <1>3 DEF Unused, Began
<1>5. claims'[d] = claims[d] /\ \A f \in File : files'[d][f] = files[d][f]
  <2>1. CASE pc[s] = "idle"
    BY <2>1, RunStepFrame
  <2>2. CASE pc[s] # "idle"
    BY <1>3, <2>2, RunStepFrame
  <2> QED BY <2>1, <2>2
<1> QED BY <1>4, <1>5 DEF Clean

LEMMA StepSolo == Inv /\ Inv' /\ SoloInv /\ [Next]_vars => SoloInv'
<1> SUFFICES ASSUME Inv, Inv', SoloInv, [Next]_vars PROVE SoloInv'
  OBVIOUS
<1>1. CASE UNCHANGED <<runVars, opened, temp, diskVars, lost>>
  BY <1>1 DEF SoloInv, Settled, Unused, Clean, Alone, Began, Solo, SoloClaims,
     SoloAnswers, SoloFiles, Written, Target, runVars, diskVars
<1>2. CASE TimePasses \/ UNCHANGED vars
  BY <1>1, <1>2 DEF TimePasses, vars
<1>3. ASSUME NEW s \in Runs, RunStep(s) PROVE SoloInv'
  <2>1. lost' = lost
    BY <1>3, RunStepFrame
  <2>2. Settled(s)' /\ (~lost /\ Alone(s)' => Solo(s)')
    BY <1>3, OwnStepSolo
  <2>3. ASSUME NEW r \in Runs \ {s}
        PROVE  Settled(r)' /\ (~lost /\ Alone(r)' => Solo(r)')
    <3>1. Settled(r)'
      BY <1>3, RunStepFrame DEF SoloInv, Settled
    <3>2. ~lost /\ Alone(r)' => Solo(r)'
      BY <1>3, OthersKeepSolo DEF SoloInv
    <3> QED BY <3>1, <3>2
  <2>4. ~lost => \A d \in Minutes : Unused(d)' => Clean(d)'
    BY <1>3, UnusedStaysClean DEF SoloInv
  <2> QED BY <2>1, <2>2, <2>3, <2>4 DEF SoloInv
<1>4. CASE PowerLoss
  <2>1. ASSUME NEW r \in Runs PROVE Settled(r)'
    BY <1>4 DEF PowerLoss, SoloInv, Settled, Inv, TypeOK, Working, Writing, Saving,
       Thinking, Ended
  <2>2. lost'
    BY <1>4 DEF PowerLoss
  <2> QED BY <2>1, <2>2 DEF SoloInv
<1> QED BY <1>2, <1>3, <1>4 DEF Next, Finished, RunStep

THEOREM ArchiveSolo == Spec => []SoloInv
BY InitSolo, StepSolo, ArchiveInv, PTL DEF Spec

\* Without a loss of power claims.md is one save ahead of the answers at most.
THEOREM OneSaveAhead == Spec => []ClaimsAheadByOneSave
<1>1. Inv /\ SoloInv => ClaimsAheadByOneSave
  <2> SUFFICES ASSUME Inv, SoloInv, ~lost, NEW r \in Runs, NEW n \in Rounds,
                      Alone(r), claims[session[r]].version > 2 * n - 1
               PROVE  Written(r, <<"agents", n>>)
    BY DEF ClaimsAheadByOneSave
  <2>1. SoloClaims(r) /\ SoloAnswers(r)
    BY DEF SoloInv, Solo
  <2>2. /\ saved[r] <= version[r] /\ n \in Nat /\ saved[r] \in Nat
        /\ version[r] \in Nat
    BY RoundsAssumption DEF Inv, Progress, TypeOK, Rounds
  <2>3. version[r] >= 2 * n
    BY <2>1, <2>2 DEF SoloClaims
  <2> QED BY <2>1, <2>3 DEF SoloAnswers
<1> QED BY <1>1, ArchiveInv, ArchiveSolo, PTL

\* The directory of a run that has returned tells how it ended, and holds all
\* that it has to hold.
THEOREM OutcomeIsOnDisk == Spec => []OutcomeOnDisk
<1>1. Inv /\ SoloInv => OutcomeOnDisk
  <2> SUFFICES ASSUME Inv, SoloInv, NEW r \in Runs, Alone(r), ~lost,
                      pc[r] \in {"converged", "limit", "failed"}
               PROVE  /\ Written(r, <<"error", 0>>) <=> pc[r] = "failed"
                      /\ pc[r] # "failed" => Archived(r)
                      /\ pc[r] = "converged" /\ ~SkipSummary =>
                            Written(r, <<"summary", 0>>)
                      /\ pc[r] = "limit" =>
                            files[session[r]][<<"summary", 0>>] = Absent
                      /\ temp[r] = "none"
    BY DEF OutcomeOnDisk
  <2>1. SoloClaims(r) /\ SoloAnswers(r) /\ SoloFiles(r) /\ Settled(r)
    BY DEF SoloInv, Solo
  <2>2. temp[r] = "none"
    BY DEF Inv, TempOwned, Saving
  <2>3. Written(r, <<"error", 0>>) <=> pc[r] = "failed"
    BY <2>1, NoRunAssumption DEF SoloFiles, Stopped, Written, Absent
  <2>4. ASSUME pc[r] # "failed" PROVE Archived(r)
    <3>1. /\ round[r] \in Nat /\ 1..round[r] \subseteq Rounds /\ round[r] > 0
          /\ version[r] \in Nat
      BY RoundsAssumption DEF Inv, TypeOK, Rounds
    <3>2. ASSUME NEW n \in 1..round[r] PROVE Written(r, <<"agents", n>>)
      <4>1. n \in Rounds /\ (n < round[r] \/ n = round[r])
        BY <3>1
      <4>2. pc[r] \in {"converged", "limit"}
        BY <2>4
      <4> QED BY <2>1, <4>1, <4>2 DEF SoloAnswers
    <3>3. /\ claims[session[r]].version = version[r]
          /\ claims[session[r]].by = r
      BY <2>1, <2>4, <3>1 DEF SoloClaims, Settled, Stopped, Saving
    <3> QED BY <2>1, <2>4, <3>2, <3>3 DEF SoloFiles, Archived
  <2>5. pc[r] = "converged" /\ ~SkipSummary => Written(r, <<"summary", 0>>)
    BY <2>1 DEF SoloFiles
  <2>6. pc[r] = "limit" => files[session[r]][<<"summary", 0>>] = Absent
    BY <2>1 DEF SoloFiles, Stopped
  <2> QED BY <2>2, <2>3, <2>4, <2>5, <2>6
<1> QED BY <1>1, ArchiveInv, ArchiveSolo, PTL

-----------------------------------------------------------------------------
(* The refinement of AtomicFile. *)

Offers == [r \in Runs |-> Offered(r)]

\* A run that saves offers its text; the others offer nothing.
LEMMA OfferedFacts ==
    ASSUME NEW r \in Runs, TypeOK
    PROVE  /\ Offered(r) = NoClaims <=> pc[r] \notin Saving \/ temp[r] = "none"
           /\ Offered(r) # NoClaims =>
                 /\ Offered(r) \in [file : Minutes, text : ClaimsText, place : {"temp", "target"}]
                 /\ Offered(r).file = session[r]
                 /\ Offered(r).text = [by |-> r, version |-> version[r], data |-> "synced"]
                 /\ (Offered(r).place = "target") = (temp[r] = "moved")
<1> DEFINE t == [by |-> r, version |-> version[r], data |-> "synced"]
           o == [file |-> session[r], text |-> t, place |-> IF temp[r] = "moved" THEN "target" ELSE "temp"]
<1>1. t \in ClaimsText /\ session[r] \in Minutes
  BY DEF TypeOK, ClaimsText
<1>2. o # NoClaims
  <2>1. "file" \in DOMAIN o /\ "file" \notin DOMAIN NoClaims
    BY DEF NoClaims
  <2> QED BY <2>1
<1>3. Offered(r) = IF pc[r] \in Saving /\ temp[r] # "none" THEN o ELSE NoClaims
  BY DEF Offered
<1>4. /\ o \in [file : Minutes, text : ClaimsText, place : {"temp", "target"}]
      /\ o.file = session[r] /\ o.text = t /\ (o.place = "target") = (temp[r] = "moved")
  BY <1>1
<1> HIDE DEF t, o
<1> QED BY <1>2, <1>3, <1>4 DEF t

LEMMA InitFile == Init => ClaimsFile!Init
<1> SUFFICES ASSUME Init PROVE ClaimsFile!Init
  OBVIOUS
<1>1. \A r \in Runs : Offered(r) = NoClaims
  BY DEF Init, Offered, Saving
<1> QED BY <1>1 DEF Init, ClaimsFile!Init, ClaimsFile!NoOffers

\* A step that changes no claims.md and at most run r's offer, from nothing
\* or to nothing, is a step of AtomicFile or none.
LEMMA OfferStep ==
    ASSUME TypeOK, TypeOK', NEW r \in Runs, UNCHANGED <<claims, kept>>,
           \A s \in Runs \ {r} : Offered(s)' = Offered(s),
           \/ Offered(r)' = Offered(r)
           \/ Offered(r)' = NoClaims
           \/ Offered(r) = NoClaims /\ Offered(r)'.place = "temp"
    PROVE  ClaimsFile!Next \/ UNCHANGED ClaimsFile!vars
<1> DEFINE O == [s \in Runs |-> Offered(s)]
<1>0. O = [s \in Runs |-> Offered(s)]
  OBVIOUS
<1>1. O' = [O EXCEPT ![r] = Offered(r)']
  OBVIOUS
<1>2. CASE Offered(r)' = Offered(r)
  <2>1. O' = O
    BY <1>1, <1>2
  <2> QED BY <2>1 DEF ClaimsFile!vars
<1>3. CASE Offered(r)' = NoClaims /\ Offered(r) # NoClaims
  <2>1. ClaimsFile!GiveUp(r)
    BY <1>1, <1>3 DEF ClaimsFile!GiveUp
  <2> QED BY <2>1 DEF ClaimsFile!Next
<1>4. CASE Offered(r) = NoClaims /\ Offered(r)' # NoClaims /\ Offered(r)'.place = "temp"
  <2>1. Offered(r)' \in [file : Minutes, text : ClaimsText, place : {"temp", "target"}]
    BY <1>4 DEF Offered, TypeOK, ClaimsText
  <2>2. Offered(r)' \in [file : Minutes, text : ClaimsText, place : {"temp"}]
    BY <1>4, <2>1
  <2>3. ClaimsFile!Offer(r)
    BY <1>1, <1>4, <2>2 DEF ClaimsFile!Offer
  <2> QED BY <2>3 DEF ClaimsFile!Next
<1> QED BY <1>2, <1>3, <1>4

LEMMA ReplaceIsInstall ==
    ASSUME Inv, NEW r \in Runs, ReplaceClaims(r)
    PROVE  ClaimsFile!Install(r)
<1> DEFINE O == [s \in Runs |-> Offered(s)]
           o == Offered(r)
<1>1. /\ pc[r] \in Saving /\ temp[r] = "synced" /\ TypeOK
      /\ UNCHANGED <<pc, session, version>>
      /\ temp' = [temp EXCEPT ![r] = "moved"]
      /\ claims' = [claims EXCEPT ![session[r]] = TempText(r)]
      /\ kept' = [kept EXCEPT ![session[r]] = @ \cup {TempText(r)}]
  BY DEF ReplaceClaims, runVars, Inv, Durable
<1>2. /\ o # NoClaims /\ o.file = session[r] /\ o.text = TempText(r)
      /\ o = [file |-> session[r], text |-> TempText(r), place |-> "temp"]
  BY <1>1, OfferedFacts DEF TempText, Offered
<1>3. Offered(r)' = [o EXCEPT !.place = "target"]
  <2>1. /\ pc'[r] \in Saving /\ temp'[r] = "moved"
        /\ session'[r] = session[r] /\ version'[r] = version[r]
    BY <1>1 DEF TypeOK
  <2>2. TempText(r) = [by |-> r, version |-> version[r], data |-> "synced"]
    BY <1>1 DEF TempText
  <2>3. Offered(r)' = [file |-> session[r], text |-> TempText(r), place |-> "target"]
    BY <2>1, <2>2 DEF Offered
  <2> QED BY <1>2, <2>3
<1>4. \A s \in Runs \ {r} : Offered(s)' = Offered(s)
  BY <1>1 DEF Offered, TypeOK
<1>5. O' = [O EXCEPT ![r].place = "target"]
  BY <1>3, <1>4
<1>6. O[r] = o
  OBVIOUS
<1> HIDE DEF o
<1> QED BY <1>1, <1>2, <1>5, <1>6 DEF ClaimsFile!Install

LEMMA SyncIsReturn ==
    ASSUME Inv, NEW r \in Runs, SyncDirectory(r)
    PROVE  ClaimsFile!Return(r)
<1> DEFINE O == [s \in Runs |-> Offered(s)]
           o == Offered(r)
<1>1. /\ pc[r] \in Saving /\ temp[r] = "moved" /\ TypeOK
      /\ UNCHANGED <<claims, session, version>>
      /\ temp' = [temp EXCEPT ![r] = "none"]
      /\ pc' = [pc EXCEPT ![r] = Then(pc[r])]
      /\ kept' = [kept EXCEPT ![session[r]] = {claims[session[r]]}]
  BY DEF SyncDirectory, GoTo, Inv
<1>2. o # NoClaims /\ o.file = session[r] /\ o.place = "target"
  BY <1>1, OfferedFacts
<1>3. Offered(r)' = NoClaims
  BY <1>1 DEF Offered, TypeOK
<1>4. \A s \in Runs \ {r} : Offered(s)' = Offered(s)
  BY <1>1 DEF Offered, TypeOK
<1>5. O' = [O EXCEPT ![r] = NoClaims]
  BY <1>3, <1>4
<1>6. O[r] = o
  OBVIOUS
<1> HIDE DEF o
<1> QED BY <1>1, <1>2, <1>5, <1>6 DEF ClaimsFile!Return

LEMMA PowerLossIsPowerLoss ==
    ASSUME Inv, PowerLoss
    PROVE  ClaimsFile!PowerLoss
<1>1. \A r \in Runs : Offered(r)' = NoClaims
  <2> SUFFICES ASSUME NEW r \in Runs PROVE pc'[r] \notin Saving
    BY DEF Offered
  <2> QED BY DEF PowerLoss, Working, Saving
<1>2. DOMAIN claims' = Minutes /\ kept' = [d \in Minutes |-> {claims'[d]}]
  BY DEF PowerLoss
<1>3. \A d \in Minutes : claims'[d] \in kept[d]
  BY PowerLossFacts
<1> QED BY <1>1, <1>2, <1>3 DEF ClaimsFile!PowerLoss, ClaimsFile!NoOffers

LEMMA StepFile ==
    Inv /\ TypeOK' /\ [Next]_vars => [ClaimsFile!Next]_(ClaimsFile!vars)
<1> SUFFICES ASSUME Inv, TypeOK', [Next]_vars
             PROVE  ClaimsFile!Next \/ UNCHANGED ClaimsFile!vars
  OBVIOUS
<1>0. TypeOK
  BY DEF Inv
<1>1. CASE UNCHANGED <<pc, session, version, temp, claims, kept>>
  <2>1. \A r \in Runs : Offered(r)' = Offered(r)
    BY <1>1 DEF Offered
  <2> QED BY <1>1, <2>1 DEF ClaimsFile!vars
<1>2. CASE TimePasses \/ UNCHANGED vars
  BY <1>1, <1>2 DEF TimePasses, vars, runVars, diskVars
<1>3. CASE PowerLoss
  BY <1>3, PowerLossIsPowerLoss DEF ClaimsFile!Next
<1>4. ASSUME NEW r \in Runs,
             Start(r) \/ EngineStep(r) \/ FileStep(r) \/ CreateTemp(r)
               \/ FillTemp(r) \/ SaveFails(r) \/ Crash(r)
      PROVE  ClaimsFile!Next \/ UNCHANGED ClaimsFile!vars
  <2>1. /\ UNCHANGED <<claims, kept>>
        /\ \A s \in Runs \ {r} :
              UNCHANGED <<pc[s], session[s], version[s], temp[s]>>
    BY <1>0, <1>4
       DEF Start, EngineStep, Prepare, Merge, SkipJudgment, Judge, NextRound,
           LeaveRoom, StepFails, FileStep, OpenFile, WriteFile, FileFails,
           CreateTemp, FillTemp, SaveFails, Crash, GoTo, runVars, diskVars, TypeOK
  <2>2. \A s \in Runs \ {r} : Offered(s)' = Offered(s)
    BY <2>1 DEF Offered
  <2>3. \/ Offered(r)' = Offered(r)
        \/ Offered(r)' = NoClaims
        \/ Offered(r) = NoClaims /\ Offered(r)'.place = "temp"
    <3>1. CASE Start(r) \/ EngineStep(r) \/ FileStep(r)
      <4>1. pc[r] \notin Saving \cup {"crashed"} /\ temp' = temp
        BY <3>1 DEF Start, EngineStep, Prepare, Merge, SkipJudgment, Judge,
           NextRound, LeaveRoom, StepFails, FileStep, OpenFile, WriteFile,
           FileFails, Saving, Writing, Thinking
      <4>2. temp'[r] = "none"
        BY <4>1 DEF Inv, TempOwned
      <4> QED BY <4>2 DEF Offered
    <3>2. CASE CreateTemp(r)
      BY <1>0, <3>2 DEF CreateTemp, Offered, TypeOK, runVars
    <3>3. CASE FillTemp(r)
      BY <1>0, <3>3 DEF FillTemp, Offered, TypeOK, runVars
    <3>4. CASE SaveFails(r)
      BY <1>0, <3>4 DEF SaveFails, AfterFailure, Offered, TypeOK
    <3>5. CASE Crash(r)
      BY <1>0, <3>5 DEF Crash, GoTo, Offered, Saving, TypeOK
    <3> QED BY <1>4, <3>1, <3>2, <3>3, <3>4, <3>5
  <2> QED BY <1>0, <2>1, <2>2, <2>3, OfferStep
<1>5. ASSUME NEW r \in Runs, ReplaceClaims(r) PROVE ClaimsFile!Next
  BY <1>5, ReplaceIsInstall DEF ClaimsFile!Next
<1>6. ASSUME NEW r \in Runs, SyncDirectory(r) PROVE ClaimsFile!Next
  BY <1>6, SyncIsReturn DEF ClaimsFile!Next
<1> QED BY <1>2, <1>3, <1>4, <1>5, <1>6 DEF Next, SaveStep, Finished

\* claims.md is replaced at once and for good in every directory.
THEOREM AtomicFileImplemented == Spec => ImplementsAtomicFile
BY InitFile, StepFile, ArchiveInv, ArchiveTypes, PTL
   DEF Spec, ImplementsAtomicFile, ClaimsFile!Spec
=============================================================================
