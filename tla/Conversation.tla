---------------------------- MODULE Conversation ----------------------------
(***************************************************************************)
(* AgentConversation (discuss_agent/conversation.py) and the retry around  *)
(* it, _call_agent (discuss_agent/engine.py): the message history of one   *)
(* agent over the rounds of a run, and its audit log (module Usage), every *)
(* write of which is taken to succeed.                                     *)
(*                                                                         *)
(* In each round the engine sends one prompt.  The model answers with a    *)
(* text or with tool calls; these are run, their results go back, and the  *)
(* model is asked again, MaxIterations times at most.  A call that raises  *)
(* and one that ends without a text are tried once more.                   *)
(*                                                                         *)
(* A model call can raise.  A tool's exception is its result, and the      *)
(* audit log swallows its own; but the tool cache raises on a result it    *)
(* cannot measure (module ToolCache), and one that awaits a future it lost *)
(* leaves the agent where it is, so nothing here is bound to go on.        *)
(*                                                                         *)
(* The texts are abstracted away: a prompt is its round, a model's         *)
(* response its number, a tool call the response it is in and its place    *)
(* there.  Of a tool result only the number of its images is kept, until   *)
(* it is sent.                                                             *)
(*                                                                         *)
(* An operator marked "Mutation" is the next definition with a bug that    *)
(* the code could have.  The specification does not use it.                *)
(***************************************************************************)
EXTENDS Integers, Sequences, SequencesExt, Usage

CONSTANTS Providers,     \* the protocols the model may be spoken to in
          MaxIterations, \* _MAX_TOOL_ITERATIONS
          MaxImages,     \* _MAX_TOOL_IMAGES
          MaxRounds,     \* discussion.max_rounds
          MaxCalls,      \* bound: the tool calls in one response
          ToolImages,    \* the numbers of images a tool may return
          Remarks        \* whether a response that calls tools has a text, too

ASSUME ProviderAssumption == Providers \subseteq {"anthropic", "openai"}
ASSUME IterationsAssumption == MaxIterations \in Nat \ {0}
ASSUME ImagesAssumption == MaxImages \in Nat /\ ToolImages \subseteq Nat
ASSUME RemarksAssumption == Remarks \subseteq BOOLEAN
ASSUME BoundsAssumption == MaxRounds \in Nat /\ MaxCalls \in Nat

VARIABLES
    provider,  \* the protocol of this agent's model
    pc,        \* where _call_agent is
    round,     \* round_num, 0 before the first
    attempt,   \* the attempt of _call_agent
    iteration, \* the model calls of this attempt, the current one included
    messages,  \* AgentConversation.messages
    responses, \* the responses the model has given so far
    images,    \* the images of each tool call of the turn that has been run
    answer,    \* the response whose text _call_agent returned, 0 for None
    log        \* the audit log of the agent

vars == <<provider, pc, round, attempt, iteration, messages, responses, images,
          answer, log>>

OpenAI == provider = "openai"

\* A call id.
CallId == [response : Nat, place : 1..MaxCalls]

Message ==
    [role : {"user"}, kind : {"prompt"}, round : 1..MaxRounds]
      \cup [role : {"assistant"}, kind : {"response"}, response : Nat,
            calls : 0..MaxCalls, text : BOOLEAN]
      \cup [role : {"user"}, kind : {"results"}, results : Seq(CallId)]
      \cup [role : {"tool"}, kind : {"result"}, call : CallId]
      \cup [role : {"user"}, kind : {"images"}]

\* idle: the engine is elsewhere; sending: send begins; model: the model is
\* asked; tools: the calls of its response are run.
TypeOK ==
    /\ provider \in Providers
    /\ pc \in {"idle", "sending", "model", "tools"}
    /\ round \in 0..MaxRounds
    /\ attempt \in 1..2
    /\ iteration \in 0..MaxIterations
    /\ messages \in Seq(Message)
    /\ responses \in Nat
    /\ images \in Seq(0..MaxImages)
    /\ answer \in 0..responses
    /\ log \in Seq([event : {"call_start", "error", "call_end"},
                     round : 1..MaxRounds])

Init ==
    /\ provider \in Providers
    /\ pc = "idle"
    /\ round = 0
    /\ attempt = 1
    /\ iteration = 0
    /\ messages = << >>
    /\ responses = 0
    /\ images = << >>
    /\ answer = 0
    /\ log = << >>

Log(events) == log' = log \o events

Prompt(r) == [role |-> "user", kind |-> "prompt", round |-> r]

Response(calls, text) ==
    [role |-> "assistant", kind |-> "response", response |-> responses + 1,
     calls |-> calls, text |-> text]

Call(response, place) == [response |-> response, place |-> place]

-----------------------------------------------------------------------------
(* A round asks the agent. *)

CallAgent ==
    /\ pc = "idle"
    /\ round < MaxRounds
    /\ pc' = "sending"
    /\ round' = round + 1
    /\ attempt' = 1
    /\ UNCHANGED <<provider, iteration, messages, responses, images, answer,
                   log>>

Send ==
    /\ pc = "sending"
    /\ pc' = "model"
    /\ messages' = Append(messages, Prompt(round))
    /\ iteration' = 1
    /\ Log(CallStart(round))
    /\ UNCHANGED <<provider, round, attempt, responses, images, answer>>

-----------------------------------------------------------------------------
(* An attempt ends. *)

\* send returns the text of response t, or an empty one when t is 0: that is
\* tried again once, with everything so far left in the history.
Return(t) ==
    /\ Log(CallEnd(round))
    /\ IF t = 0 /\ attempt = 1
       THEN pc' = "sending" /\ attempt' = 2 /\ UNCHANGED answer
       ELSE pc' = "idle" /\ answer' = t /\ UNCHANGED attempt

\* Mutation: nothing is removed.
Rollback_None(m) == m

\* Mutation: the last message is removed whatever it is.
Rollback_Any(m) == Front(m)

\* "Remove the failed user message so retry can re-add it"
Rollback(m) == IF Last(m).role = "user" THEN Front(m) ELSE m

\* The last response of the model.
LastResponse ==
    SelectLastInSeq(messages, LAMBDA m : m.kind = "response")

CallsToRun == messages[LastResponse].calls

\* send raises: the model call does, or, in Anthropic's protocol, a tool call
\* whose result the cache cannot measure, before any result is appended.
Raises ==
    \/ pc = "model"
    \/ pc = "tools" /\ ~OpenAI /\ Len(images) < CallsToRun

RetryAfterError ==
    /\ Raises
    /\ attempt = 1
    /\ pc' = "sending"
    /\ attempt' = 2
    /\ messages' = Rollback(messages)
    /\ images' = << >>
    /\ Log(FailedCallEnd(round))
    /\ UNCHANGED <<provider, round, iteration, responses, answer>>

\* Mutation: the failed message is removed here too.
LeaveHistory_Rollback == messages' = Rollback(messages)

LeaveHistory == UNCHANGED messages

GiveUpAfterError ==
    /\ Raises
    /\ attempt = 2
    /\ pc' = "idle"
    /\ answer' = 0
    /\ LeaveHistory
    /\ images' = << >>
    /\ Log(FailedCallEnd(round))
    /\ UNCHANGED <<provider, round, attempt, iteration, responses>>

-----------------------------------------------------------------------------
(* The model responds. *)

\* With no tool call: its text, which may be empty, is the result.
FinalResponse ==
    /\ pc = "model"
    /\ \E text \in BOOLEAN :
          /\ messages' = Append(messages, Response(0, text))
          /\ Return(IF text THEN responses + 1 ELSE 0)
    /\ responses' = responses + 1
    /\ UNCHANGED <<provider, round, iteration, images>>

ToolCallResponse ==
    /\ pc = "model"
    /\ \E calls \in 1..MaxCalls, text \in Remarks :
          messages' = Append(messages, Response(calls, text))
    /\ pc' = "tools"
    /\ responses' = responses + 1
    /\ UNCHANGED <<provider, round, attempt, iteration, images, answer, log>>

TotalImages == FoldLeft(LAMBDA x, y : x + y, 0, images)

\* A result with too many images, or a tool that failed: an error text.
Normalized(n) == IF n > MaxImages THEN 0 ELSE n

\* Mutation: the images of the new result are not counted.
Fits_Before(n) == TotalImages <= MaxImages

Fits(n) == TotalImages + n <= MaxImages

\* A result whose images would exceed the limit of the turn becomes an error.
Shown(n) == IF Fits(Normalized(n)) THEN Normalized(n) ELSE 0

\* One tool call.  In OpenAI's protocol its result is a message of its own,
\* and the cache's exception (a ValueError) becomes an error text like others.
RunTool ==
    /\ pc = "tools"
    /\ Len(images) < CallsToRun
    /\ \E n \in ToolImages : images' = Append(images, Shown(n))
    /\ messages' =
          IF OpenAI
          THEN Append(messages,
                      [role |-> "tool", kind |-> "result",
                       call |-> Call(responses, Len(images) + 1)])
          ELSE messages
    /\ UNCHANGED <<provider, pc, round, attempt, iteration, responses, answer,
                   log>>

\* Anthropic: one user message with all results.
ResultsMessage ==
    [role |-> "user", kind |-> "results",
     results |-> [i \in DOMAIN images |-> Call(responses, i)]]

\* OpenAI: one user message with the images, if there are any.
ImagesMessage == [role |-> "user", kind |-> "images"]

Delivered ==
    IF ~OpenAI THEN Append(messages, ResultsMessage)
    ELSE IF TotalImages > 0 THEN Append(messages, ImagesMessage)
    ELSE messages

\* Mutation: any response is good enough.
MaxIterationsText_Latest(m) ==
    IF messages[LastResponse].text THEN responses ELSE 0

\* _max_iterations_text: the text of the last message, if it is the model's.
MaxIterationsText(m) ==
    IF Last(m).role = "assistant" /\ Last(m).text THEN Last(m).response ELSE 0

ToolsDone ==
    /\ pc = "tools"
    /\ Len(images) = CallsToRun
    /\ messages' = Delivered
    /\ images' = << >>

\* Mutation: one model call too many.
IterationsLeft_OneMore == iteration <= MaxIterations

IterationsLeft == iteration < MaxIterations

AskAgain ==
    /\ ToolsDone
    /\ IterationsLeft
    /\ pc' = "model"
    /\ iteration' = iteration + 1
    /\ UNCHANGED <<provider, round, attempt, responses, answer, log>>

StopIterating ==
    /\ ToolsDone
    /\ ~IterationsLeft
    /\ Return(MaxIterationsText(Delivered))
    /\ UNCHANGED <<provider, round, iteration, responses>>

\* There is no further round.
Done ==
    /\ pc = "idle"
    /\ round = MaxRounds
    /\ UNCHANGED vars

Next ==
    \/ CallAgent \/ Send
    \/ RetryAfterError \/ GiveUpAfterError
    \/ FinalResponse \/ ToolCallResponse
    \/ RunTool \/ AskAgain \/ StopIterating
    \/ Done

Spec == Init /\ [][Next]_vars

-----------------------------------------------------------------------------
(* Properties. *)

\* The messages after position i answer the tool calls of the response there:
\* each call once, in the order of the calls, with nothing in between.
Answered(i) ==
    LET r == messages[i]
    IN IF OpenAI
       THEN \A j \in 1..r.calls :
               /\ i + j \in DOMAIN messages
               /\ messages[i + j].kind = "result"
               /\ messages[i + j].call = Call(r.response, j)
       ELSE /\ i + 1 \in DOMAIN messages
            /\ messages[i + 1].kind = "results"
            /\ messages[i + 1].results =
                  [j \in 1..r.calls |-> Call(r.response, j)]

\* The responses whose tool calls have no results in the history and will not
\* get any.
Orphans ==
    {i \in DOMAIN messages :
        /\ messages[i].kind = "response"
        /\ messages[i].calls > 0
        /\ ~Answered(i)
        /\ ~(pc = "tools" /\ i = LastResponse)}

\* Whatever fails and is tried again, the model is never shown tool calls
\* without their results.  It holds in OpenAI's protocol.
CallsAnswered == OpenAI => Orphans = {}

\* In Anthropic's protocol calls lose their results in two ways, both of which
\* end the attempt, so that a prompt is what follows them, if anything: the
\* first attempt's retry takes the results away after a failed model call, or
\* a tool call raises before they are appended.
OrphansEndAttempts ==
    [][\A i \in Orphans' \ Orphans :
          /\ i = Len(messages')
          /\ \/ /\ pc = "model" /\ attempt = 1 /\ pc' = "sending"
                /\ Len(messages') = Len(messages) - 1
             \/ /\ pc = "tools" /\ Len(images) < CallsToRun
                /\ pc' \in {"idle", "sending"}
                /\ messages' = messages]_vars

\* "Remove the failed user message so retry can re-add it": a prompt that was
\* never responded to is not in the history twice.
NoEcho ==
    \A i \in 1..(Len(messages) - 1) :
        messages[i].kind = "prompt" => messages[i] # messages[i + 1]

\* What an agent is quoted with in a round is the text of a response to that
\* round's prompt that asks for no further tool, and it is the last message:
\* never a remark the model made on the way to a tool call.
AnswerIsFinal ==
    pc = "idle" /\ answer # 0 =>
        LET last == Last(messages)
        IN /\ last.kind = "response"
           /\ last.response = answer
           /\ last.calls = 0
           /\ last.text
           /\ \E i \in DOMAIN messages :
                 /\ messages[i] = Prompt(round)
                 /\ \A j \in (i + 1)..Len(messages) :
                       messages[j].kind # "prompt"

\* The results of one response never carry more than MaxImages images.
TurnImagesLimited == TotalImages <= MaxImages

\* The two tables of the usage summary speak of the same calls: each call that
\* ended is in exactly one row, whatever failed and was tried again.
CountedOnce ==
    pc = "idle" =>
        LET calls == RowCalls(log)
        IN ToSet(calls) = CountedCalls(log) /\ IsInjective(calls)

\* A row may hold the call of an earlier round than its number says, because of
\* retries, but never that of a later one, nor more than two of a round.
RowsFollowRounds ==
    pc = "idle" =>
        LET calls == RowCalls(log)
        IN \A n \in DOMAIN calls :
              /\ log[calls[n]].round <= n
              /\ n <= 2 * log[calls[n]].round

\* engine.py:246, "Remove the failed user message so retry can re-add it":
\* what a retry takes out of the history is the round's prompt.
RetryRemovesPrompt ==
    [][Len(messages') < Len(messages) => Last(messages) = Prompt(round)]_vars
=============================================================================
