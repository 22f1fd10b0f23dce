# discuss-agent in TLA+

discuss-agent lets several LLM agents debate a topic. They propose claims and
answer each other's; a Host, another LLM, judges every claim after each round,
closes it, continues it or reopens it, and decides whether the room has
converged. This directory models the program that runs such a debate
(`src/discuss_agent/`). Model, agents and Host may answer anything, so the
models leave their answers free; what is checked is what the program makes of
them, in any order, with any call failing.

## 1. Inventory

The program is one process with one asyncio event loop. Concurrency is between
the tasks of the agents of a round (`asyncio.gather`); everything else is
sequential, with failures of model calls, of tools and of the file system.

| Component | State it keeps | Operations | Modelled in |
|---|---|---|---|
| Engine (`engine.py`, `DiscussionEngine`) | round, offered keywords, accepted and rejected verdicts, safety blockers, room adjudication, Host routing | `run`, `_round_1`, `_round_n`, `_host_judge`, `_apply_host_verdicts`, `_room_converged`, `_host_summarize`, `_call_agent` | `Discussion`, `Conversation` |
| Claims (`claims.py`, `ClaimsManager`) | claims by keyword: status and entries; unmatched responses | `merge_round`, `add_reopen_request`, `resolve_reopen_request`, `close_claim`, `continue_claim`, the queries that recompute requests from the entries | `ClaimsLedger`, used by `Discussion` |
| Texts of claims (`claims.py`) | none of their own | references of claims, `_resolve_response_targets`, `_compact_claim`, `format_host_candidate_batches`, `format_host_global_context`, the sections of claims in `generate_update_prompt`, `format_file`, `_parse_text` | `References`, `Targets`, `HostBatches`, `AgentPrompt`, `FileLayout`, composed in `ClaimText` |
| Shared tool results (`conversation.py`, `_ToolResultCache`) | results in LRU order, their bytes, calls in flight | `execute` | `ToolCache` |
| Agent conversation (`conversation.py`, `AgentConversation`) | message history | `send`, the tool loops of two protocols, `_execute_tool` | `Conversation` |
| Archive (`persistence.py`, `ClaimsManager.save`) | session directory: configuration, context, rounds, `claims.md`, summary, error log | `start_session`, the `save_*` functions, `save` | `Archive`, `AtomicFile` |
| Audit (`audit.py`) | one open file per agent | append an event, summarise usage | `Usage`, used by `Conversation` |
| Context (`context.py`) | none | await the user's context builder | not modelled |
| Configuration (`config.py`) | none | validate a YAML file | its results are the CONSTANTS |
| Registry, records, command line | none | import a path, hold data, print | not modelled |

How they interact: `run` creates the conversations, which share one tool cache.
Each round it awaits one `_call_agent` per agent; each of these drives its own
conversation, and these meet only in the tool cache. The texts are merged by
`ClaimsManager` in config order, whatever order they came in. The Host gets the
candidate claims in batches, one call after the other. Verdicts are applied
after the last batch, `claims.md` is saved, and the room decision is taken.

What is hard, and what makes each part correct:

* **Claims and verdicts.** The life of a claim is spread over three places: a
  status, a history that is searched for requests and decisions each time, and
  verdicts that travel from one function to another with failures between them.
  Correct is: a closed claim comes back only by the approval of a request that
  was pending; a request is recorded once and decided once; no claim gets into
  a state in which every verdict on it is refused; one ruling a round.
* **Host batches.** One batch may fail and another not, a claim may be cut or
  not shown at all, and only the last batch decides for the room. Correct is:
  what the Host did not see, saw in part or was refused keeps the room open,
  and every OPEN claim has a routing of the last round.
* **Convergence.** Four results of an earlier round survive a round in which
  the Host is not asked. Correct is: they never make such a round converge.
* **Tool cache.** Leaders fail or are cancelled while others wait; the eviction
  loop keeps a sum; a leader may also raise once it is no longer registered.
  Correct is: one call per key, nobody waits for a leader that is gone, an error
  is never shared, the limits and the sum hold. The second is so with one
  exception (section 6).
* **Conversation and retry.** A model call or a tool call may fail in the
  middle of tool use. Correct is: the model never sees calls without results, the
  prompt is there once, and what is quoted is a final answer.
* **Files.** Any write may fail, the process may be killed between two of them,
  the power may go; two runs in one minute share a directory. Correct is: a
  reader of `claims.md` finds a whole text, a save that returned is not undone,
  and round files never tell of more than `claims.md` holds.
* **Texts of claims.** A claim goes by its keyword, or by a digest if that is too
  long; agents answer under either, name several at once, and keywords may
  contain the separators. Correct is: an answer reaches the claim it was given
  for and nothing is dropped without a report. The Host's batches are cut by
  length and by number. Correct is: each candidate is in exactly one batch, and
  text that was cut is marked so that the claim cannot be closed unseen; an
  agent is told of every claim that did not fit into its prompt.
* **Layout of `claims.md`.** What agents say is written between headers and tags,
  and may look like them. Correct is: a reader finds the claims, entries and
  unmatched responses that were written.
* **Usage summary.** It pairs calls and rounds only by their order in the audit
  log. Correct is: each call is counted once, and in no row before its round.

## 2. Modules

| Module | What it is |
|---|---|
| `ClaimsLedger` | A claim and its updates as operators on values; what the history says. |
| `Discussion` | The run as a state machine; EXTENDS `ClaimsLedger`. |
| `ClaimRoom` | What a run promises about its claims, with no rounds, entries, batches or failures. |
| `ToolCache` | `_ToolResultCache.execute` for any number of tasks. |
| `Conversation` | One agent's message history and the engine's retry; EXTENDS `Usage`. |
| `Usage` | The audit log of a call, and what the usage summary counts. |
| `Archive` | The files of runs, step by step, with failures, kills and a loss of power. |
| `AtomicFile` | What `save` promises about `claims.md`, without temporary files. |
| `References` | The names under which claims are shown. |
| `Targets` | Whom a response is about; EXTENDS `References`. |
| `HostBatches` | The blocks, batches and summary the Host is shown; EXTENDS `References`. |
| `AgentPrompt` | The sections of claims an agent is shown; EXTENDS `HostBatches`. |
| `FileLayout` | What is written to `claims.md`, and what is read from it. |
| `ClaimText` | One round of `Targets`, `HostBatches` and `AgentPrompt`, or one save of `FileLayout`. |
| `MCDiscussion`, `MCArchive`, `MCClaimText` | Inputs and symmetry for TLC. |
| `FoldFacts` | Lemmas about induction, sums and folds; no component. |
| `DiscussionProofs`, `RoomProofs`, `HistoryProofs`, `ToolCacheProofs`, `ConversationProofs`, `ArchiveProofs`, `ClaimTextProofs` | Theorems. |

An operator whose comment says "Mutation" is the definition after it with a bug
the code could have. The specifications do not use it; it is there to see that a
property would notice the bug.

### Discussion and ClaimsLedger

`phase` is the place in `run`: `start` (tools, context), `agents` (the gather),
`merge` (`merge_round`), `judge` (`_host_judge`), `room` (the decision),
`summary`, `done`. The actions follow the code:

* `AgentAnswers`, `AgentFails`: `_call_agent` returns a text or None, in any
  order among the agents. `GatherOutputs` goes on when all have; only in round 1
  does a round with no output end the run (`FirstRoundFails`).
* `MergeNewClaim`, `MergeResponse`, `MergeReopenRequest`: one parsed response at
  a time, first agent first. No other code runs between them, they are split
  only to keep each branch of `merge_round` readable.
* `StartJudgment` resets what `_host_judge` resets, `SkipJudgment` is its early
  return and resets nothing. `OfferBatch` takes some of the remaining
  candidates; `RejectReply` is any failed or refused reply, `AcceptReply` any
  valid one, `DropReply` the one that decides on a reopen request that was cut.
* `ApplyVerdicts` is `_apply_host_verdicts` whole: acceptance is checked again
  against the claims, accepted verdicts are applied, every other offered claim
  gets the fallback.
* `NextRound`, `StopAtLimit`, `Converge`, `Summarize`, `RunFails`: the rest.

Abstracted: all texts; the two closing verdicts are one, since nothing tells
them apart later; a request's digest is the record it is computed from; which
keywords a response names after target resolution is an input; batches are any
split that respects the number of claims, so every split the size limits can
produce is among them; unmatched responses and the list of protocol rejections
are left out because no decision reads them.

### ToolCache

`pc` is the place of each task in `execute`. A step is what the event loop runs
without giving way: the locked sections contain no await, so the lock is never
contended except by the loop of evictions, which is split into steps
(`EvictOldest`, `StoreResult`) with everybody else held up (`LoopFree`). A future
is the wait of its followers; resolving it writes to them. `Cancel` and
`OperationRaises` are `CancelledError` and other exceptions. `MeasuringRaises` is
the exception of `result.text.encode("utf-8")` (`conversation.py:137`) for a text
with a lone surrogate: the leader has left `_inflight` and never gets to its
future, so whoever waits for that is `stranded`, with cancellation as the only
step left. `by`, in a result, is the task that computed it; the code does not
store it.

### Conversation

`messages` is the history: prompts, responses with a number of tool calls, tool
results. `Send`, `FinalResponse`, `ToolCallResponse`, `RunTool`, `AskAgain` and
`StopIterating` are `send` and the two tool loops, `OpenAI` choosing the
protocol; `RetryAfterError`, `GiveUpAfterError` and `Return` are `_call_agent`.
`Raises` says where `send` may raise: in the model call, or, in Anthropic's
protocol, in a tool call whose cacheable result the tool cache cannot measure.
All other exceptions of tools become results in `_execute_tool`, in OpenAI's
protocol that one as well (a `ValueError`, `conversation.py:436`), and the audit
log swallows its own. An agent whose tool call is stranded in the cache stays in
`tools`; nothing here assumes that it goes on. Cancelling the task ends
the run and with it the history. The Host has no history: `_call_host` sends a
single message each time.

`log` is what these steps leave in the agent's audit file (`Usage`): a start, an
end, and before the end an error if the call raised. `RowCalls` is the loop of
`generate_usage_summary` over the events, `CountedCalls` what it counts per
agent. Events of tools are left out, because the summary skips them.

### Archive and AtomicFile

`pc` follows `run` from write to write. A file other than `claims.md` is opened
(and thereby emptied) in one step and written in another, so a kill can leave it
empty. `save` has four steps: `CreateTemp`, `FillTemp` (write and `fsync`),
`ReplaceClaims` (`os.replace`), `SyncDirectory`; `SaveFails` is an exception in
any of them and includes the `finally` block. `kept` is what a loss of power may
leave of `claims.md`: after `os.replace` the old text as well as the new one,
after the `fsync` of the directory only what is there. `Crash` kills one run,
`PowerLoss` all of them. `version` counts the states of the claims, two a round;
their contents, and whether a round has candidates or converges, are free.

`AtomicFile` has neither steps of a save nor temporary files: a writer offers a
text, installs it, returns or gives up. `ImplementsAtomicFile` maps a run in
`save` to its offer.

### References, Targets, HostBatches, AgentPrompt, FileLayout and ClaimText

These are about texts. A text is a sequence of characters; in the runs a digest is
a single character, since all that matters is what it is equal to and that all
have one length. The numbers behind a digest are bounded by `Suffix`; there are as
many as there may be claims. `Picked` is a comprehension of the code that keeps some
elements of a list. `Targets` follows
`_resolve_response_targets` character by character: `MatchWhole`, `MatchKeyword`,
`SkipSeparator`, `KeepCharacter` are the branches of its loop and `Finish` is what
comes after it. All separators of the code behave alike and are one here, and
what is matched and unmatched is a set, because nothing reads the order.
`Respond` does the lookup that precedes it, `Record` what the response does to
later lookups: a valid request makes a CLOSED claim a candidate.

In `HostBatches` a text is its length. A candidate's history is an input, and
`CompactClaim` computes from it the length of the block, whether it is marked as
cut, and whether it shows everything; `AddToBatch`, `NextBatch` and `SkipClaim`
are the branches of `format_host_candidate_batches`. The block that reads as the
header of another claim, which the code leaves out, is the input `quotes`.
`GlobalContext` is the summary of all candidates that goes with each batch; which
of a claim's entries are in it depends on their types, so the property tries
several.

`AgentPrompt` uses the same blocks, with the agent's limit, for the two sections
of an update prompt. `RequestSection` is `_bounded_all_blocks`, which divides the
room, `BoundedSection` is `_bounded_blocks`, which shows whole blocks and then a
line about the others. The code drops blocks from the end until that line fits;
`ShownBlocks` is the number it arrives at. Which claims an agent is asked about
is an input. The two sections do not read each other, so all claims are put into
the one and then into the other.

`FileLayout` is about lines: a line is a text behind some blanks, and a text is a
header, a tag with the first line of a content behind it, a JSON object or
something plain. The regular expressions are their forms; that a line has at
most one of them is what the expressions say. `ReadLine` is the body of the loop
of `_parse_text`, `FileLines` is `format_file`. Only tests of the repository read the
file back (`parse_claims_file`), and people do. `Phrases` and `Items` are what a
line of a content and an unmatched response may say; `FileAssumption` puts the
inputs in terms of them. A topic is a single line that begins with no blank,
because the engine takes the first line of the stripped context
(`engine.py:1171`). One that looks like a heading or a rule is lost when it is read;
one that looks like a claim header or the header of the responses would be read as
that, and `ReadsBack` says nothing of it. Blanks at the end of a line are not told
apart.

`ClaimText` runs all of this: agents are shown references, new claims come in
before the answers are looked up, and the Host is shown what is then a candidate,
under references of its own. The round ends there. So does a save (`SaveClaims`),
which changes no claim. Therefore this run does not check for deadlock.

## 3. Runs

| Run | Instance | Shows |
|---|---|---|
| `lifecycle` | 2 claims in batches of 1, 1 agent, 1 payload, 4 rounds, up to 2 proposals and requests per round; 3.6 million states | types; a claim's status is the one its history tells; after closing only requests and decisions; requests are recorded and decided once, none is left on an OPEN claim; one ruling a round; reopening only by approval |
| `batches` | 2 claims in batches of 1, 3 rounds, any response; 1.6 million states | failed, cut and missing claims keep the room open, are routed to all, and change no status |
| `room` | 1 claim, 2 agents, 3 rounds | `Discussion` implements `ClaimRoom`, and returns |
| `cache` | 3 tasks, 3 keys, 2 entries, 3 bytes, results of 1, 3 and 4 bytes, 1 call each | all safety of the cache; every call ends, or its future was lost |
| `conversation` | either protocol, 2 rounds, 2 model calls per attempt, 2 tool calls per response, results with 0, 2 and 4 images; 1.7 million states | what a retry may leave behind, what an agent is quoted with, that every call the model sees has its result in OpenAI's protocol, when calls lose their results in Anthropic's, the image limit of a turn, and what the usage summary counts |
| `rounds` | 1 run of 3 rounds that may fail or die at every write | what its files say about each other and about the result it returned, and that no temporary file is left |
| `shared` | 2 runs in one directory; 0.9 million states | `Archive` implements `AtomicFile`; no torn `claims.md`, no save undone |
| `claimtext` | 5 tables of 3 claims with separators, slashes and digests in their keywords, a fourth claim, targets of up to 4 characters and longer lists, 9 histories around the limits, 11 contents with lines of every form; 0.9 million states | an answer reaches its claim, nothing vanishes, each block is in one batch, cuts and omissions are marked for Host and agents, `claims.md` reads as it was written |
| `pending`, `closed`, `rollback`, `single` | small | four disagreements with the documentation, section 6 |

Why these bounds. Four rounds are what the whole life of a claim takes: propose
and close, ask, reopen and close, ask again. With a single claim no request
outlives its round, because a room of closed claims converges when the Host
fails (finding 1); `lifecycle` therefore has two, one staying OPEN while requests
on the other pile up from different rounds. Batches of one claim make a failed
batch beside an accepted one possible with two claims. Of routings only "nobody"
and "everybody" occur: whom a CONTINUE names only changes the texts of later
prompts, and no property looks at it. In `cache` the sizes are one
that shares the cache, one that fills it and one that never fits; two entries
and three tasks give evictions of one and of two results. In `Conversation` the
limits of 20 iterations and 3 images are lowered to what lets every branch
happen twice; a response with tool calls always carries a remark as well, which
is the case that could be quoted by mistake. Symmetry is used only in runs
without liveness.

In `rounds` the clock passes the minute of the session, in `shared` it does not, so
that both runs have the same directory; that they may have different ones is
what `Alone` is for. One round is enough there, since each has two saves. In
`claimtext` the limits of 4,000 characters a block and 80,000 a batch are 40 and
80, and the fixed texts are shortened with them: what counts is that a batch may
be filled by its length and by its number of claims, and that histories lie on
both sides of each limit. `LimitsAssumption` says what the proportions must be, and
holds for the program's: header, preview and mark take at most 512 + 273 + 26
characters and must fit into the half of 4,000 that is kept before a cut.
The summary has 60 characters instead of 40,000. That a mark has a length
and that a batch may hold a claim is assumed as well.
For agents the limits of 8,000 characters a block, 32,000 for requests and 40,000
for other claims are 50, 60 and 100, with `PromptAssumption` in the place of
`LimitsAssumption`: three claims may or may not fit into either section, together
with the line about the rest or without it. In a saved file all claims but
one have the same content, since the reader keeps nothing of an earlier claim but
its keyword; each content has a line of every form behind its first, with no
blanks and with as many as the writer adds. The topics are one that is read and one
that looks like a heading.

`Done` (`Discussion`, `Conversation`) and `Finished` (`ToolCache`, `Archive`) are
the steps of a run that is over, so every run but `claimtext` checks for deadlock
as well.

## 4. Fairness

`Discussion` has weak fairness on `Next`: every model call has a timeout of 600
seconds (`conversation.py:184`), and the context builder and the tools are
assumed to return, which the code does not enforce. For tools there is one case
where the code itself breaks the assumption: a call stranded in the tool cache
never returns, and neither does the round that gathers it. That a run ends is
shown for runs without it. In `ToolCache` each task has weak fairness on its own
next step (`Proceed`, which includes both ways of raising): the event loop resumes
every ready task, and operations end under the same assumption. A stranded task
has no such step. No fairness is put on
making a call or on cancellation. `Conversation`, `Archive` and `ClaimText` state
safety only.

## 5. What is proved

Theorems hold for every value of the constants that satisfies their named
assumptions (`AgentsAssumption`, `RoundsAssumption` and so on, all evaluated by
TLC in the runs).

* `FoldFacts`: what folds compute. The prover can use no induction theorem that
  takes an operator, but it can use one about a set: `LeastNatural` gives
  `SetInduction`, that a set with 0 and all successors is `Nat`. From it follow
  recursion over finite subsets (`RecursionOverSubsets`), that a sum over a set does
  not depend on the order, that a fold from the left runs through the sequence
  step by step (`FoldIsLastStep`, `StepsAgree`), and what is in sequences that are put
  one behind the other (`FlattenAppend`).
* `DiscussionProofs`: first, for each update of a claim in `ClaimsLedger`, its type,
  its status and which requests are recorded and decided afterwards.
  `ResolveFacts` is the one that matters: a list that decides exactly the pending
  requests leaves none. Then `TypeCorrect`. Then `StepEvolves`: every step
  changes every claim in one of five ways (`Unaffected`, `Proposed`, `Settled`,
  `Asked`, `Heard`). `OpenHasNoPending` is not inductive alone: a claim that is
  proposed could bring old requests with it, and what is decided could exceed
  what was asked. `Standing` excludes both, and `Inv`, the conjunction of
  `TypeOK`, `Standing` and `OpenHasNoPending`, is inductive by the five ways.
  `OpenClaimsSettled` and `ReopenNeedsApproval` follow.
* `RoomProofs`: `RoomImplemented`, the safety half of the refinement. A merge is
  a `Propose` or an `AskReopen`, `ApplyVerdicts` is a `Rule`, the last step is an
  `End`, and everything else changes nothing in the room. That a converged room has
  a claim needs `Peopled`: a CONVERGED can only stem from a Host that was asked,
  and it is asked about claims only.
  The rest is about what becomes of claims the Host did not rule on.
  `TruncatedIsKept` needs `Marks`, which says what holds while batches go to the
  Host: those still to come have no verdict, and those cut never get one of the
  Host's own. `VerdictCases` then splits a judgment into an accepted CONTINUE, a
  closing verdict, decided requests and the fallback, and says of each whether it
  routes the claim and whether it seals it. `OpenClaimsRouted`, `ConvergedIsFresh`
  and `ConvergedRoomSealed` follow from `Between`, which carries this from one
  judgment to the next.
* `ToolCacheProofs`: `CacheInv` is inductive, and with it the types and limits,
  `SingleFlight`, `NoRecomputation`, `WaitersHaveLeader`, `SharedIsCacheable`. The
  conjuncts need each other: a leader may store only because it is alone
  (`SingleFlight`), a follower has a leader because the registered one leads, and
  a task about to store holds a cacheable result of its own key that fits
  (`Holding`, the only conjunct that is not a property of its own). `AccountedHolds`
  and `EvictionFindsVictimHolds` add `Accounting`: the byte count is a sum over the
  results, one key never has two of them, and so what is taken off for the oldest
  one, or for the one replaced, is what it had added. A cache over its limit of
  bytes is not empty, since the count of an empty one is 0.
* `HistoryProofs`: the properties of positions in a history. `Chronicle` says
  everything a single claim's history is held to (`Told`, `Silent`, `Once`, `Single`,
  `Ruled`). One lemma each shows that it survives an entry at the end and a list
  of decisions there; every step of `Discussion` is one of these.
* `ConversationProofs`: `Typed` has the types and, what they do not say, which
  messages follow the response whose tools are running. `Prompted` on top of it
  gives `NoEcho` and `AnswerIsFinal`: prompts are in the order of their rounds, a
  result is never right behind one, and a retry finds its prompt gone.
  `OpenForReason` gives `CallsAnswered`: a response without its results is the
  current turn, or, in Anthropic's protocol, the last message of an attempt that
  is over, or has a prompt behind it. For `OrphansEndAttempts` it says that an
  orphan which is not the last message has a prompt behind it, before and after a
  step, so it was one before (`FollowedIsOld`); and each step that leaves a new
  one at the end is one of the two named (`EndMakesOrphan`). `TurnImagesLimitedHolds` is a sum over the
  results of a turn, each of which gets what the ones before it left. For the
  usage summary `Tallied` says what the loop over the log has found at any time:
  which call is open, that each one that ended has a row, and how many rows there
  are in each round; `CountedOnceHolds` and `RowsFollowRoundsHolds` follow.
* `ArchiveProofs`: `Inv` has that only synchronised texts are moved (`Durable`), how
  far the saves of a run are at each of its places (`Progress`), who owns a
  temporary file, that all a loss of power may leave is as new as the last save
  (`Kept`), and that only what is saved is archived (`Recorded`). From it follow
  `NeverTorn`, `SaveIsDurable`, `RoundsBehindClaims` and the
  refinement `AtomicFileImplemented`, for any number of runs, minutes and rounds.
  `OneSaveAhead` and `OutcomeIsOnDisk` are about a run whose directory is its own.
  `SoloInv` says of it what is in `claims.md` and in every other file at each of its
  places. It holds because a directory nobody uses is empty (`Unused`, `Clean`),
  so a run that begins alone begins with nothing, and because a step of another
  run does not touch the directory (`OthersKeepSolo`).
* `ClaimTextProofs`: the texts, for any keywords, digests, histories and limits.
  - References. `BuildReferences` is a loop that avoids what it has given before.
    `BuildReferencesIs` finds its result without the loop: a long keyword gets the first
    number that the keywords do not take (`References`), and digests of one length
    never compete for one. `Listed` says that the claims are a table and that the
    agents were shown such references among some of them; with it and `Whole`, that
    a target which is a claim is not scanned, `AnswersReachClaimHolds` follows.
  - Scan. `NothingVanishes` speaks of the end of the scan; `Scanned` is what is true
    at every character. Each piece that ends before `position` has landed (`Lands`).
    Of the current one either everything read so far is in `buffer`, and no keyword
    stood where it could have been taken (`Unfinished`), or a keyword ends here and
    has it as its last piece (`BehindMatch`). A keyword with commas spans several
    pieces of the target: `KeywordHasPieces` shows that each of them, up to blanks,
    is a piece of the keyword. `PieceIsKept` is why a piece that is a keyword is
    reported only with a blank behind it: it would have fitted at its first character.
  - Batches. `Filling` says what is true after every block: every batch and the
    current one are within the limits (`Fine`), `currentSize` is the length of what
    they will be joined to, and (`Kept`) the batches hold, one behind the other, the
    references of what can be shown of the claims handled so far. At the end that
    is everything, and a reference leads back to its claim: `EachBlockOnceHolds`.
  - Blocks. `CompactIsDisclosed` goes through the cases of `CompactClaim`. If the
    entries fit their shares without the mark, there is none to place. If they do
    not, the shares with the mark are smaller still (`SharesAreMonotone`), so
    something stays cut and the mark is right; and it stands in front of the cut,
    by `LimitsAssumption`. `SharesAreAll` says that the shares are all of a budget,
    which bounds the block. `ContextIsDisclosed`, `RequestsAreDisclosed` and
    `ReviewIsDisclosed` are the same for the summary and the two sections of an
    agent's prompt, and make `LossIsMarkedHolds`.
  - File. The writer's lines are put together by `FlattenSeq` and the reader's loop is
    a fold, so neither has steps to go by. `Reads` gives them: from one state the
    reader gets to another by these lines. It composes (`ReadsOn`), and from the
    state that has read nothing it is the fold (`LoopReads`). `Ready` describes the
    reader between two parts of the file by what it has once the entry it holds is
    put away, whether or not it holds one. Each part then is a step from `Ready` to
    `Ready` (`Grows`): an entry, because none of its further lines can be anything but
    content behind four blanks (`FurtherRead`); a claim, because the keyword of its
    header is new; the claims, one after the other (`ChunksRead`). That no keyword is
    there twice is the invariant `OwnKeywords`; `FileReadsBackHolds` follows for every
    content.

Only model-checked: liveness (`CallsEndOrStrand`, and that a run ends), which the
prover cannot do. Every invariant and every action property of the runs that pass
is stated by a theorem. The proof of a state property
holds for `PowerLoss` and `Crash` at any step, so nothing is assumed about when
they happen.

## 6. Findings

1. `pending`, `engine.py:1114`. When the Host fails, no room adjudication is
   left, and the code then reads the room as one of the old protocol: converged
   if no claim is OPEN. A room of closed claims with a reopen request nobody
   decided is reported as converged and the request is lost. The README promises
   a decision on the next judgment, DESIGN.md that an unclear judgment goes on.
2. `closed`, `engine.py:1116`. When the Host closes every claim and says
   NOT_CONVERGED, later rounds have no candidates, the Host is not asked again,
   and its NOT_CONVERGED is read each round until `max_rounds`. spec/021 says the
   run returns converged as soon as all claims are closed.
3. `rollback`, `engine.py:247`. The retry removes the last message if its role
   is `user`, meaning the prompt. After tool use in Anthropic's protocol that
   message holds the tool results: they are lost, their calls stay unanswered
   in the history for the rest of the run, and the prompt is there twice.
   `OrphansEndAttempts` shows that there is only one other way, the failure in
   the tool cache described next.
4. `single`, `persistence.py:69`. Session directories are named by the minute and
   one that exists is taken, so two runs begun in the same minute write over
   each other's files, and both return normally. README promises an archive for
   each run.

A further defect is part of the models without a run that fails for it. The tool
cache measures a cacheable result with `result.text.encode("utf-8")`
(`conversation.py:137`), which raises `UnicodeEncodeError` for a text with a lone
surrogate. The leader has left `_inflight` by then (134), its future is not
resolved yet (147), and the handler above (126) no longer applies.

* Tasks that wait for that future (119) wait for ever, and with them the round
  that gathers the agents. In `ToolCache` they are `stranded`; `WaitersHaveLeader`
  and `CallsEndOrStrand` say that this is the only way to be left behind.
* In Anthropic's protocol the exception leaves `send` before the results are
  appended (388, 411), so the calls stay unanswered, in the second attempt
  with no copy of the prompt behind them. `OrphansEndAttempts` names this case.

DESIGN.md:252 and spec/001-discussion-engine/spec.md:381 say that an agent whose
tool call fails receives the error and continues. In OpenAI's protocol the leader
does (`conversation.py:436`), its followers do not.

Smaller things met while modelling, not wrong by any statement of the
repository, or without a caller:

* `load_history` (`persistence.py:151`) looks for round files by a name
  (`_express.json`) that no longer is written. Nothing calls it.
* A blank before a separator (`a ,b`) keeps the keyword in front of it from being
  recognised; it is reported as unmatched (`claims.py:201`). `NothingVanishes`
  has the exception.
* A new claim that has a shown digest as its keyword takes the answers
  meant for the claim with that digest (`claims.py:460`). `AnswersReachClaim` has
  the exception.
* A response naming a CLOSED claim whose keyword contains a separator is split
  and may reach OPEN claims that have its parts as keywords.
* A row of the usage summary is not a round: retries shift the later rows.
  `RowsFollowRounds` bounds by how much.

## 7. Not modelled

* Loading and merging of tools (`engine.py:68-190`): sequential, before the first
  round. A failure there is `StepFails` in `Archive` and `RunFails` in
  `Discussion`.
* The wording of prompts, and in the update prompt the notices of status changes
  and protocol conflicts; the routing of a CONTINUE to the agents it names is only
  recorded.
* The markers that agents and Host write, and how `parse_agent_output` and the
  Host's reply are taken apart: what comes out is an input of `Discussion`.
* `load_history`, `resume_session`, and the compression of old rounds in
  `context.py`: no caller.
* Context builder: a single awaited function of the user.
* Configuration, registry, command line: no state.
* Decoding of images, wire formats of the two providers, extraction of usage from
  responses: pure conversions.
* The list of protocol rejections (`_host_protocol_rejections`), but for whether a
  verdict was rejected in this round: the rest is only written to the round file.

## 8. Plan

Done, in this order: `ClaimsLedger`, `Discussion`, `ClaimRoom`, `ToolCache`,
`Conversation`, `Archive` with `AtomicFile`, `Usage`, `References`, `Targets`,
`HostBatches`, `AgentPrompt`, `FileLayout`, `ClaimText`, with the theorems above. What
would come next:

1. Tool loading: definitions and callables are merged by different rules, so a
   tool of the same name in two toolkits has the definition of the first and the
   function of the second.
2. The markers of responses, from the agents' outputs to the records that
   `merge_round` is given.
